---- MODULE Spec2Model ----
(***************************************************************************)
(* Model of the VHDL documentation parser: the XElement tree               *)
(* (xelement.py), the tree builder and the comment pass of VHDLFiles       *)
(* (vhdl_parser.py), and the entity / label registries.                    *)
(*                                                                         *)
(* Strings are sequences of one-character strings, so that len(), lower()  *)
(* and concatenation are computed and not assumed.  Elements live in a     *)
(* store indexed by identity (a natural number); the store is the record   *)
(* [tag, attrib, text, kids, raised], where raised names the exception     *)
(* that ended the computation ("" when none was raised).                   *)
(***************************************************************************)
EXTENDS Integers, Sequences, FiniteSets, TLC

VARIABLES
    pc,          \* position of the driver: which call has returned
    token_list,  \* token list handed to token_list_to_element_tree
    tree,        \* the element store (every XElement that is alive)
    raised,      \* exception raised by the last call, "" if it returned
    entities,    \* VHDLFiles.entities: insertion-ordered dict, as a sequence of [key, info]
    label_list,  \* the label registry handed to add_label: dict, as a sequence of [key, obj]
    inserted,    \* history: number of times add_label stored each key
    result,      \* value returned (or error raised) by the last query
    calls        \* number of calls made so far (bounded)

vars == <<pc, token_list, tree, raised, entities, label_list, inserted, result, calls>>

-----------------------------------------------------------------------------
(* Bounds *)

MaxLines == 3      \* source lines of a generated token list
MaxCalls == 3      \* parse_file / add_label calls in one behaviour

-----------------------------------------------------------------------------
(* Python values *)

NoError == ""
None == <<>>                 \* None for an optional column: <<>> or <<c>>
Some(x) == <<x>>
NoText == <<>>               \* Element.text of a node that never got one

Last(s) == s[Len(s)]
Front(s) == SubSeq(s, 1, Len(s) - 1)
Reverse(s) == [i \in 1..Len(s) |-> s[Len(s) + 1 - i]]
InSeq(x, s) == \E i \in 1..Len(s) : s[i] = x
IndexOf(x, s) == CHOOSE i \in 1..Len(s) : s[i] = x /\ \A j \in 1..(i - 1) : s[j] /= x
RemoveAt(s, i) == SubSeq(s, 1, i - 1) \o SubSeq(s, i + 1, Len(s))
Min(a, b) == IF a < b THEN a ELSE b

LowerChar(c) ==
    CASE c = "A" -> "a"
      [] c = "B" -> "b"
      [] c = "C" -> "c"
      [] OTHER -> c

lower(s) == [i \in 1..Len(s) |-> LowerChar(s[i])]

\* sep.join(ss)
RECURSIVE join(_, _)
join(sep, ss) ==
    IF ss = <<>> THEN <<>>
    ELSE IF Len(ss) = 1 THEN ss[1]
    ELSE ss[1] \o sep \o join(sep, Tail(ss))

\* dict: the sequence of its items [key, value] in insertion order
HasKey(d, k) == \E i \in 1..Len(d) : d[i].key = k
KeyIndex(d, k) == CHOOSE i \in 1..Len(d) : d[i].key = k
DictGet(d, k) == d[KeyIndex(d, k)].value
DictKeys(d) == [i \in 1..Len(d) |-> d[i].key]

\* d[k] = v: a present key keeps its position
DictSet(d, k, v) ==
    IF HasKey(d, k) THEN [d EXCEPT ![KeyIndex(d, k)].value = v]
    ELSE Append(d, [key |-> k, value |-> v])

\* d.update(other)
RECURSIVE DictUpdate(_, _)
DictUpdate(d, other) ==
    IF other = <<>> THEN d
    ELSE DictUpdate(DictSet(d, Head(other).key, Head(other).value), Tail(other))

-----------------------------------------------------------------------------
(* XElement: construction and the list protocol of xml.etree Element *)

EmptyStore == [tag |-> <<>>, attrib |-> <<>>, text |-> <<>>, kids |-> <<>>, raised |-> NoError]

Raise(t, exc) == IF t.raised = NoError THEN [t EXCEPT !.raised = exc] ELSE t

\* XElement(tag, **extra): the new element is the one with identity Len(t.tag) + 1
XElement(t, tag, attrib) ==
    [t EXCEPT !.tag = Append(@, tag), !.attrib = Append(@, attrib),
              !.text = Append(@, NoText), !.kids = Append(@, <<>>)]

NewId(t) == Len(t.tag) + 1

SetText(t, e, text) == [t EXCEPT !.text[e] = text]

append(t, parent, e) == [t EXCEPT !.kids[parent] = Append(@, e)]

\* list.insert(index, e): an index past the end appends
insert(t, parent, index, e) ==
    LET k == t.kids[parent]
        i == Min(index, Len(k))
    IN [t EXCEPT !.kids[parent] = SubSeq(k, 1, i) \o <<e>> \o SubSeq(k, i + 1, Len(k))]

\* Element.remove(e): ValueError when e is not a child
remove(t, parent, e) ==
    IF t.raised /= NoError THEN t
    ELSE IF ~InSeq(e, t.kids[parent]) THEN Raise(t, "ValueError")
    ELSE [t EXCEPT !.kids[parent] = RemoveAt(@, IndexOf(e, @))]

extend(t, parent, elements) == [t EXCEPT !.kids[parent] = @ \o elements]

\* XElement.__getattr__: the attribute of the element, else of its first child
RECURSIVE HasAttr(_, _, _)
HasAttr(t, e, name) ==
    IF name \in DOMAIN t.attrib[e] THEN TRUE
    ELSE IF Len(t.kids[e]) > 0 THEN HasAttr(t, t.kids[e][1], name)
    ELSE FALSE

RECURSIVE GetAttr(_, _, _)
GetAttr(t, e, name) ==
    IF name \in DOMAIN t.attrib[e] THEN t.attrib[e][name]
    ELSE GetAttr(t, t.kids[e][1], name)

\* Element.itertext joined: the text of the element and of its descendants in document order
RECURSIVE subtext(_, _)
RECURSIVE SubtextOfList(_, _)
subtext(t, e) == t.text[e] \o SubtextOfList(t, t.kids[e])
SubtextOfList(t, es) ==
    IF es = <<>> THEN <<>> ELSE subtext(t, Head(es)) \o SubtextOfList(t, Tail(es))

\* Element.iter(): the element and its descendants in document order
RECURSIVE iter(_, _)
RECURSIVE IterOfList(_, _)
iter(t, e) == <<e>> \o IterOfList(t, t.kids[e])
IterOfList(t, es) ==
    IF es = <<>> THEN <<>> ELSE iter(t, Head(es)) \o IterOfList(t, Tail(es))

-----------------------------------------------------------------------------
(* Tokens of the external tokenizer *)

Token(tag, value, enter, leave) ==
    [tag |-> tag, value |-> value, enter_prod |-> enter, leave_prod |-> leave]

WS == Token("parser.whitespace", <<" ">>, <<>>, <<>>)
CM == Token("parser.comment", <<"-", "-">>, <<>>, <<>>)
CR == Token("parser.carriage_return", <<"\n">>, <<>>, <<>>)
DB == Token("delimited_comment.beginning", <<"/", "*">>, <<>>, <<>>)
DE == Token("delimited_comment.ending", <<"*", "/">>, <<>>, <<>>)
SC == Token("entity_declaration.semicolon", <<";">>, <<>>, <<>>)

Marks(b, prod) == IF b THEN <<prod>> ELSE <<>>

\* a code token that may open and / or close one production
KW(enter, leave) ==
    Token("entity_declaration.entity_keyword", <<"e">>,
          Marks(enter, "entity_declaration"), Marks(leave, "entity_declaration"))

-----------------------------------------------------------------------------
(* VHDLFiles.token_list_to_element_tree *)

\* for prod in t.enter_prod: push a production node
RECURSIVE EnterProds(_, _)
EnterProds(b, prods) ==
    IF prods = <<>> \/ b.t.raised /= NoError THEN b
    ELSE IF b.elem = <<>> THEN [b EXCEPT !.t = Raise(@, "IndexError")]
    ELSE LET ne == NewId(b.t)
             t1 == XElement(b.t, Head(prods), [col |-> b.col, line |-> b.line])
             t2 == append(t1, Last(b.elem), ne)
         IN EnterProds([b EXCEPT !.t = t2, !.elem = Append(@, ne)], Tail(prods))

\* variant of LeaveProds: one pop for a token, however many productions it leaves
LeaveProds_PopOnce(b, prods) ==
    IF prods = <<>> \/ b.t.raised /= NoError THEN b
    ELSE IF b.elem = <<>> THEN [b EXCEPT !.t = Raise(@, "IndexError")]
    ELSE [b EXCEPT !.elem = Front(@)]

\* for prod in t.leave_prod: elem.pop()
RECURSIVE LeaveProds(_, _)
LeaveProds(b, prods) ==
    IF prods = <<>> \/ b.t.raised /= NoError THEN b
    ELSE IF b.elem = <<>> THEN [b EXCEPT !.t = Raise(@, "IndexError")]
    ELSE LeaveProds([b EXCEPT !.elem = Front(@)], Tail(prods))

\* variant of AppendLeaf: the running column is not reset at a line end
AppendLeaf_KeepColumn(b, tok) ==
    IF b.t.raised /= NoError THEN b
    ELSE IF b.elem = <<>> THEN [b EXCEPT !.t = Raise(@, "IndexError")]
    ELSE LET ne == NewId(b.t)
             t1 == SetText(XElement(b.t, tok.tag, [col |-> b.col, line |-> b.line]), ne, tok.value)
             t2 == append(t1, Last(b.elem), ne)
             isCR == tok.tag = "parser.carriage_return"
         IN [b EXCEPT !.t = t2,
                      !.col = b.col + Len(tok.value),
                      !.line = IF isCR THEN b.line + 1 ELSE b.line]

\* variant of AppendLeaf: the leaf is inserted before the children of the open node
AppendLeaf_InsertFirst(b, tok) ==
    IF b.t.raised /= NoError THEN b
    ELSE IF b.elem = <<>> THEN [b EXCEPT !.t = Raise(@, "IndexError")]
    ELSE LET ne == NewId(b.t)
             t1 == SetText(XElement(b.t, tok.tag, [col |-> b.col, line |-> b.line]), ne, tok.value)
             t2 == insert(t1, Last(b.elem), 0, ne)
             isCR == tok.tag = "parser.carriage_return"
         IN [b EXCEPT !.t = t2,
                      !.col = IF isCR THEN 0 ELSE b.col + Len(tok.value),
                      !.line = IF isCR THEN b.line + 1 ELSE b.line]

\* the leaf of one token, and the running column and line
AppendLeaf(b, tok) ==
    IF b.t.raised /= NoError THEN b
    ELSE IF b.elem = <<>> THEN [b EXCEPT !.t = Raise(@, "IndexError")]
    ELSE LET ne == NewId(b.t)
             t1 == SetText(XElement(b.t, tok.tag, [col |-> b.col, line |-> b.line]), ne, tok.value)
             t2 == append(t1, Last(b.elem), ne)
             isCR == tok.tag = "parser.carriage_return"
         IN [b EXCEPT !.t = t2,
                      !.col = IF isCR THEN 0 ELSE b.col + Len(tok.value),
                      !.line = IF isCR THEN b.line + 1 ELSE b.line]

BuildToken(b, tok) ==
    LeaveProds(AppendLeaf(EnterProds(b, tok.enter_prod), tok), tok.leave_prod)

RECURSIVE BuildTokens(_, _)
BuildTokens(b, toks) ==
    IF toks = <<>> \/ b.t.raised /= NoError THEN b
    ELSE BuildTokens(BuildToken(b, Head(toks)), Tail(toks))

\* the store after the call; the file element is the one with identity NewId(t)
token_list_to_element_tree(t, filename, toks) ==
    LET et == NewId(t)
        t0 == XElement(t, "file", [filename |-> filename])
    IN BuildTokens([t |-> t0, elem |-> <<et>>, col |-> 0, line |-> 0], toks).t

-----------------------------------------------------------------------------
(* XElement.iterbetween, XElement.group, XElement.move *)

\* variant of IterScan: the element of stop_at ends the loop before it is yielded
RECURSIVE IterScan_StopAtExcluded(_, _, _, _, _, _)
IterScan_StopAtExcluded(es, started, start_at, start_after, stop_before, stop_at) ==
    IF es = <<>> THEN <<>>
    ELSE LET e == Head(es)
             s1 == started \/ InSeq(e, start_at)
             out == IF s1 THEN <<e>> ELSE <<>>
             s2 == s1 \/ InSeq(e, start_after)
         IN IF s1 /\ (InSeq(e, stop_before) \/ InSeq(e, stop_at)) THEN <<>>
            ELSE out \o IterScan_StopAtExcluded(Tail(es), s2, start_at, start_after,
                                                stop_before, stop_at)

\* the loop of iterbetween over the candidate elements es; the four bounds are lists of elements
RECURSIVE IterScan(_, _, _, _, _, _)
IterScan(es, started, start_at, start_after, stop_before, stop_at) ==
    IF es = <<>> THEN <<>>
    ELSE LET e == Head(es)
             s1 == started \/ InSeq(e, start_at)
             out == IF s1 THEN <<e>> ELSE <<>>
             s2 == s1 \/ InSeq(e, start_after)
         IN IF s1 /\ InSeq(e, stop_before) THEN <<>>
            ELSE IF s2 /\ InSeq(e, stop_at) THEN out
            ELSE out \o IterScan(Tail(es), s2, start_at, start_after, stop_before, stop_at)

iterbetween(t, self, start_at, start_after, stop_before, stop_at, recurse) ==
    IterScan(IF recurse THEN iter(t, self) ELSE t.kids[self],
             start_at = <<>> /\ start_after = <<>>,
             start_at, start_after, stop_before, stop_at)

\* for ee in element_list: self.remove(ee)
RECURSIVE RemoveEach(_, _, _)
RemoveEach(t, self, es) ==
    IF es = <<>> \/ t.raised /= NoError THEN t
    ELSE RemoveEach(remove(t, self, Head(es)), self, Tail(es))

\* variant of GroupIndex: the enumerate loop never breaks, i is the last index
GroupIndex_NoBreak(t, self, first) == Len(t.kids[self]) - 1

\* index of element_list[0] among the children of self, as left by the enumerate loop (0-based)
GroupIndex(t, self, first) ==
    IF InSeq(first, t.kids[self]) THEN IndexOf(first, t.kids[self]) - 1
    ELSE Len(t.kids[self]) - 1

\* variant of InsertGroup: the new element is appended to self
InsertGroup_Append(t, self, i, ne) ==
    IF t.raised /= NoError THEN t ELSE append(t, self, ne)

\* self.insert(i, ne), reached when no remove raised
InsertGroup(t, self, i, ne) ==
    IF t.raised /= NoError THEN t ELSE insert(t, self, i, ne)

\* group(element_list, tag): the new element, when one is created, has identity NewId(t)
group(t, self, element_list, tag) ==
    IF element_list = <<>> \/ t.raised /= NoError THEN t
    ELSE InsertGroup(RemoveEach(extend(XElement(t, tag, <<>>), NewId(t), element_list),
                                self, element_list),
                     self, GroupIndex(t, self, element_list[1]), NewId(t))

\* the argument `element` of move: an XElement [node |-> e] or a list [list |-> es]
IsList(element) == "list" \in DOMAIN element

\* list(element): of an XElement it is the list of its children
ListOf(t, element) == IF IsList(element) THEN element.list ELSE t.kids[element.node]

\* variant of MoveAppend: a copy of each element is appended to the target
RECURSIVE MoveAppend_Copy(_, _, _, _)
MoveAppend_Copy(t, self, target_element, es) ==
    IF es = <<>> \/ t.raised /= NoError THEN t
    ELSE IF remove(t, self, Head(es)).raised /= NoError THEN remove(t, self, Head(es))
    ELSE MoveAppend_Copy(
            append(SetText(XElement(remove(t, self, Head(es)), t.tag[Head(es)],
                                    t.attrib[Head(es)]),
                           NewId(t), t.text[Head(es)]),
                   target_element, NewId(t)),
            self, target_element, Tail(es))

\* for ee in elements: self.remove(ee); target_element.append(ee)
RECURSIVE MoveAppend(_, _, _, _)
MoveAppend(t, self, target_element, es) ==
    IF es = <<>> \/ t.raised /= NoError THEN t
    ELSE LET t1 == remove(t, self, Head(es))
         IN IF t1.raised /= NoError THEN t1
            ELSE MoveAppend(append(t1, target_element, Head(es)), self, target_element, Tail(es))

\* for ee in reversed(element): self.remove(ee); target_element.insert(index, ee)
RECURSIVE MoveInsert(_, _, _, _, _)
MoveInsert(t, self, target_element, es, index) ==
    IF es = <<>> \/ t.raised /= NoError THEN t
    ELSE LET t1 == remove(t, self, Head(es))
         IN IF t1.raised /= NoError THEN t1
            ELSE MoveInsert(insert(t1, target_element, index, Head(es)),
                            self, target_element, Tail(es), index)

\* move(element, target_element, index): index is None or Some(i)
move(t, self, element, target_element, index) ==
    IF t.raised /= NoError THEN t
    ELSE IF index = None \/ index = Some(-1)
         THEN MoveAppend(t, self, target_element, ListOf(t, element))
    ELSE IF index[1] >= 0
         THEN MoveInsert(t, self, target_element, Reverse(ListOf(t, element)), index[1])
    ELSE Raise(t, "ValueError")

-----------------------------------------------------------------------------
(* VHDLFiles.group_and_move_comments *)

\* the local variables of one call
PassInit(t) ==
    [t |-> t, comment_group |-> <<>>, comment_group_col |-> None,
     comment_line |-> <<>>, comment_line_col |-> None,
     delimited_comment |-> FALSE, last_prod |-> None]

\* Element.get(name): None when the element itself has no such attribute
Get(t, e, name) == IF name \in DOMAIN t.attrib[e] THEN Some(t.attrib[e][name]) ELSE None

\* trailing a production lp: the items after it, then the block cg, go into it
TailMove(p, etc, cg, lp) ==
    [p EXCEPT !.t = move(MoveAppend(p.t, etc, lp,
                                    iterbetween(p.t, etc, <<>>, <<lp>>, <<cg>>, <<>>, FALSE)),
                         etc, [node |-> cg], lp, None),
              !.last_prod = None]

\* on a production e: the block cg and the pending line become its first children
HeadMove(p, etc, e, cg) ==
    [p EXCEPT !.t = move(move(p.t, etc, [node |-> cg], e, Some(0)),
                         etc, [list |-> p.comment_line], e, Some(1)),
              !.comment_line = <<>>, !.comment_line_col = None]

\* what process_comment_group does with the new block cg
Relocate(p, etc, e, cg) ==
    IF p.t.raised /= NoError THEN p
    ELSE IF p.last_prod /= None THEN TailMove(p, etc, cg, p.last_prod[1])
    ELSE IF Len(p.t.kids[e]) > 0 THEN HeadMove(p, etc, e, cg)
    ELSE p

process_comment_group(p, etc, e) ==
    IF p.comment_group = <<>> \/ p.t.raised /= NoError THEN p
    ELSE Relocate([p EXCEPT !.t = group(p.t, etc, p.comment_group, "comment_block"),
                            !.comment_group = <<>>, !.comment_group_col = None],
                  etc, e, NewId(p.t))

\* the merge test of a line-end token
LineJoinsGroup(p) ==
    /\ p.comment_line_col /= None
    /\ \/ p.comment_group = <<>>
       \/ p.comment_group_col = None
       \/ p.comment_line_col[1] >= p.comment_group_col[1]

\* variant of SeedOrBlank: a line without a comment is grouped wherever it begins
SeedOrBlank_AnyColumn(p, etc) ==
    IF p.comment_line = <<>> THEN p
    ELSE IF p.comment_line_col = None
         THEN [p EXCEPT !.t = group(@, etc, p.comment_line, "blank_line")]
    ELSE [p EXCEPT !.comment_group = @ \o p.comment_line,
                   !.comment_group_col = p.comment_line_col]

\* the line that ended a group: a blank line at column 0, or the first line of a new group
SeedOrBlank(p, etc) ==
    IF p.comment_line = <<>> THEN p
    ELSE IF p.comment_line_col = None
         THEN IF Get(p.t, p.comment_line[1], "col") = Some(0)
              THEN [p EXCEPT !.t = group(@, etc, p.comment_line, "blank_line")]
              ELSE p
    ELSE [p EXCEPT !.comment_group = @ \o p.comment_line,
                   !.comment_group_col = p.comment_line_col]

ClearLine(p) == [p EXCEPT !.comment_line = <<>>, !.comment_line_col = None]

\* carriage_return branch, the line (with its line end) is already in p.comment_line
EndOfLine(p, etc, e) ==
    IF LineJoinsGroup(p)
    THEN [p EXCEPT !.comment_group = @ \o p.comment_line, !.comment_line = <<>>,
                   !.comment_line_col = None]
    ELSE ClearLine(SeedOrBlank([process_comment_group(p, etc, e) EXCEPT !.last_prod = None],
                               etc))

\* last_prod after a non-comment token e
TrackProd(p, e) ==
    IF Len(p.t.kids[e]) > 0 THEN [p EXCEPT !.last_prod = Some(e)]
    ELSE IF p.t.text[e] /= <<";">> THEN [p EXCEPT !.last_prod = None]
    ELSE p

\* any other token
OtherToken(p, etc, e) == TrackProd(ClearLine(process_comment_group(p, etc, e)), e)

\* the body of the loop over the children, for the child e
ScanChild(p, etc, e) ==
    LET tag == p.t.tag[e]
        pl == [p EXCEPT !.comment_line = Append(@, e)]
    IN IF p.delimited_comment THEN
            IF tag = "delimited_comment.ending" THEN [pl EXCEPT !.delimited_comment = FALSE]
            ELSE IF tag = "parser.carriage_return" THEN
                [pl EXCEPT !.comment_group = @ \o pl.comment_line, !.comment_line = <<>>,
                           !.comment_group_col = IF @ = None THEN pl.comment_line_col ELSE @]
            ELSE pl
       ELSE IF tag = "delimited_comment.beginning" THEN
            [pl EXCEPT !.delimited_comment = TRUE, !.comment_line_col = Some(GetAttr(p.t, e, "col"))]
       ELSE IF tag \in {"parser.whitespace", "parser.blank_line"} THEN pl
       ELSE IF tag = "parser.comment" THEN
            [pl EXCEPT !.comment_line_col = Some(GetAttr(p.t, e, "col"))]
       ELSE IF tag = "parser.carriage_return" THEN EndOfLine(pl, etc, e)
       ELSE OtherToken(p, etc, e)

\* for e in list(etc)
RECURSIVE ScanChildren(_, _, _)
ScanChildren(p, etc, es) ==
    IF es = <<>> \/ p.t.raised /= NoError THEN p
    ELSE ScanChildren(ScanChild(p, etc, Head(es)), etc, Tail(es))

IsGroupTag(tag) == tag \in {"comment_block", "blank_line"}

RECURSIVE group_and_move_comments(_, _, _)
RECURSIVE RecurseInto(_, _)

\* one iteration of the second loop: recurse into e when it has children and is no group
RecurseChild(t, e) ==
    IF Len(t.kids[e]) > 0 /\ ~IsGroupTag(t.tag[e])
    THEN group_and_move_comments(t, e, TRUE)
    ELSE t

\* the second loop: process comments in sub-nodes
RecurseInto(t, es) ==
    IF es = <<>> \/ t.raised /= NoError THEN t
    ELSE RecurseInto(RecurseChild(t, Head(es)), Tail(es))

\* what follows the scan of the children: t is the store the scan left
AfterScan(t, etc, recurse) ==
    IF t.raised /= NoError \/ ~recurse THEN t
    ELSE RecurseInto(t, t.kids[etc])

group_and_move_comments(t, etc, recurse) ==
    AfterScan(ScanChildren(PassInit(t), etc, t.kids[etc]).t, etc, recurse)

-----------------------------------------------------------------------------
(* Token lists: the lines a tokenizer can emit *)

LineShapes ==
    { <<CM, CR>>, <<WS, CM, CR>>, <<CR>>, <<WS, CR>>,
      <<KW(FALSE, FALSE), CR>>, <<KW(TRUE, FALSE), CR>>,
      <<KW(FALSE, TRUE), CR>>, <<KW(TRUE, TRUE), CR>>,
      <<KW(FALSE, FALSE), WS, CM, CR>>, <<KW(TRUE, TRUE), WS, CM, CR>>,
      <<KW(TRUE, TRUE), SC, WS, CM, CR>>,
      <<WS, KW(TRUE, TRUE), CR>>,
      <<WS, DB, CR>>, <<DE, CR>>, <<DE, KW(FALSE, FALSE), CR>>,
      <<WS, DB, CR, DE, CR>> }

RECURSIVE TokenLists(_)
TokenLists(n) ==
    IF n = 0 THEN {<<>>}
    ELSE LET shorter == TokenLists(n - 1)
         IN shorter \cup {s \o l : s \in shorter, l \in LineShapes}

\* the tokenizer emits the tokens of a delimited comment between its start and its end
\* token, and no code token there: here these are whitespace and line ends
RECURSIVE CommentsWellFormed(_, _)
CommentsWellFormed(toks, open) ==
    IF toks = <<>> THEN TRUE
    ELSE IF Head(toks).tag = "delimited_comment.ending"
         THEN open /\ CommentsWellFormed(Tail(toks), FALSE)
    ELSE IF Head(toks).tag = "delimited_comment.beginning"
         THEN ~open /\ CommentsWellFormed(Tail(toks), TRUE)
    ELSE IF open
         THEN /\ Head(toks).tag \in {"parser.whitespace", "parser.carriage_return"}
              /\ CommentsWellFormed(Tail(toks), TRUE)
    ELSE CommentsWellFormed(Tail(toks), FALSE)

FileName == "a.vhd"
NoResult == [kind |-> "none"]

-----------------------------------------------------------------------------
(* Specification of one file: build the tree, then run the comment pass *)

Init ==
    /\ pc = "lexed"
    /\ token_list \in {tl \in TokenLists(MaxLines) : CommentsWellFormed(tl, FALSE)}
    /\ tree = EmptyStore
    /\ raised = NoError
    /\ entities = <<>>
    /\ label_list = <<>>
    /\ inserted = <<>>
    /\ result = NoResult
    /\ calls = 0

\* et = token_list_to_element_tree(filename, token_list); the file element is element 1
Build ==
    /\ pc = "lexed"
    /\ LET t == token_list_to_element_tree(EmptyStore, FileName, token_list)
       IN /\ raised' = t.raised
          /\ tree' = IF t.raised = NoError THEN t ELSE EmptyStore
          /\ pc' = IF t.raised = NoError THEN "built" ELSE "failed"
    /\ UNCHANGED <<token_list, entities, label_list, inserted, result, calls>>

\* group_and_move_comments(et)
GroupAndMove ==
    /\ pc = "built"
    /\ LET t == group_and_move_comments(tree, 1, TRUE)
       IN /\ raised' = t.raised
          /\ tree' = [t EXCEPT !.raised = NoError]
    /\ pc' = "grouped"
    /\ UNCHANGED <<token_list, entities, label_list, inserted, result, calls>>

Next == Build \/ GroupAndMove

Spec == Init /\ [][Next]_vars

-----------------------------------------------------------------------------
(* Views of a tree used by the properties *)

\* the leaves below root in document order (a file element without tokens is not a leaf)
Leaves(t, root) == SelectSeq(iter(t, root), LAMBDA e : t.kids[e] = <<>> /\ e /= root)

RECURSIVE Concat(_)
Concat(ss) == IF ss = <<>> THEN <<>> ELSE Head(ss) \o Concat(Tail(ss))

Elements(t) == 1..Len(t.tag)
Reachable(t, root) == {iter(t, root)[i] : i \in 1..Len(iter(t, root))}
IsProd(t, e) == Len(t.kids[e]) > 0 /\ ~IsGroupTag(t.tag[e])
ParentsOf(t, e) == {p \in Elements(t) : InSeq(e, t.kids[p])}

\* the tree as it was when the builder returned it
BuiltTree == token_list_to_element_tree(EmptyStore, FileName, token_list)

-----------------------------------------------------------------------------
(* Comment lines of a scope of the built tree *)

\* number of whitespace siblings directly before position j of the child list k
RECURSIVE WsBefore(_, _, _)
WsBefore(t, k, j) ==
    IF j > 1 /\ t.tag[k[j - 1]] = "parser.whitespace" THEN 1 + WsBefore(t, k, j - 1) ELSE 0

\* first position of the line whose comment token is at position i - 1
LineStart(t, k, i) == i - 1 - WsBefore(t, k, i - 1)

\* k[i] is the line end of a comment line that begins in this scope at column 0
IsCommentLineEnd(t, k, i) ==
    /\ i >= 2
    /\ t.tag[k[i]] = "parser.carriage_return"
    /\ t.tag[k[i - 1]] = "parser.comment"
    /\ t.attrib[k[LineStart(t, k, i)]].col = 0

\* first position of the run of comment lines that ends with the line end at position i
RECURSIVE RunStart(_, _, _)
RunStart(t, k, i) ==
    LET ls == LineStart(t, k, i)
    IN IF ls > 1 /\ IsCommentLineEnd(t, k, ls - 1) THEN RunStart(t, k, ls - 1) ELSE ls

IsCommentToken(t, e) == t.tag[e] \in {"parser.comment", "delimited_comment.beginning"}

CommentBlocks(t) == {e \in Reachable(t, 1) : t.tag[e] = "comment_block"}

-----------------------------------------------------------------------------
(* Properties of the tree builder and of the comment pass *)

\* C1: group_and_move_comments keeps the leaves and their text: after the pass the
\* leaves in document order are the leaves of the built tree in the same order, each
\* with the text it had, and the concatenated text is the one before the pass
C1_PassKeepsLeafText ==
    pc = "grouped" =>
        /\ Leaves(tree, 1) = Leaves(BuiltTree, 1)
        /\ \A e \in Elements(BuiltTree) : tree.text[e] = BuiltTree.text[e]
        /\ subtext(tree, 1) = subtext(BuiltTree, 1)

\* the pass returned and has grouped a comment that lies inside a production, before
\* other children of that production
C1_Witness ==
    /\ pc = "grouped"
    /\ raised = NoError
    /\ \E b \in CommentBlocks(tree) : \E s \in Elements(tree) :
            /\ s /= 1
            /\ InSeq(b, tree.kids[s])
            /\ Last(tree.kids[s]) /= b

\* C2: when token_list_to_element_tree returns a tree, it has one leaf per token, in token
\* order, with the token's tag and value, and its text is the concatenated token values
C2_OneLeafPerToken ==
    pc = "built" =>
        LET leaves == Leaves(tree, 1)
        IN /\ Len(leaves) = Len(token_list)
           /\ \A i \in 1..Len(leaves) :
                /\ tree.text[leaves[i]] = token_list[i].value
                /\ tree.tag[leaves[i]] = token_list[i].tag
           /\ \A i, j \in 1..Len(leaves) : i < j => leaves[i] /= leaves[j]
           /\ subtext(tree, 1) = Concat([i \in 1..Len(token_list) |-> token_list[i].value])

\* a tree with whitespace, nested in a production, was returned
C2_Witness ==
    /\ pc = "built"
    /\ Len(token_list) >= 4
    /\ \E i \in 1..Len(token_list) : token_list[i].tag = "parser.whitespace"
    /\ \E e \in Elements(tree) : IsProd(tree, e) /\ e /= 1 /\ Len(tree.kids[e]) >= 2

\* C3: header attachment: a run of comment lines directly before a production (only
\* whitespace between the last line end and the production) is, after the pass, a
\* comment_block that is the first child of the production, followed by that whitespace,
\* and the block is not a child of the enclosing scope
C3_HeaderAttached ==
    pc = "grouped" =>
        \A s \in Reachable(BuiltTree, 1) :
            LET k == BuiltTree.kids[s]
            IN \A j \in 1..Len(k) :
                LET w == WsBefore(BuiltTree, k, j)
                    i == j - w - 1
                    P == k[j]
                IN (IsProd(BuiltTree, P) /\ IsCommentLineEnd(BuiltTree, k, i)) =>
                    LET first == tree.kids[P][1]
                    IN /\ tree.tag[first] = "comment_block"
                       /\ \A r \in RunStart(BuiltTree, k, i)..i : InSeq(k[r], tree.kids[first])
                       /\ SubSeq(tree.kids[P], 2, w + 1) = SubSeq(k, i + 1, j - 1)
                       /\ ~InSeq(first, tree.kids[s])

\* C4: indentation drift: a comment_block never holds a comment that starts left of the
\* first comment of the block (such a line ends the group and starts a new one)
C4_DedentEndsGroup ==
    pc = "grouped" =>
        \A b \in CommentBlocks(tree) :
            LET cs == SelectSeq(tree.kids[b], LAMBDA e : IsCommentToken(tree, e))
            IN \A n \in 2..Len(cs) :
                GetAttr(tree, cs[n], "col") >= GetAttr(tree, cs[1], "col")

-----------------------------------------------------------------------------
(* VHDLFiles.add_label *)

\* the argument `label`: a str [single |-> lab] or a list [list |-> labs]
LabelsOf(label) == IF "list" \in DOMAIN label THEN label.list ELSE <<label.single>>

\* (typ, lab) in label_list: a key of the dict, or an element of the list
Registered(reg, key) ==
    IF reg.kind = "dict" THEN HasKey(reg.items, key) ELSE InSeq(key, reg.items)

\* label_list[(typ, lab)] = obj: a list does not take a tuple as index
StoreLabel(a, key, obj) ==
    IF a.reg.kind = "dict"
    THEN [a EXCEPT !.reg.items = DictSet(@, key, obj), !.stored = Append(@, key)]
    ELSE [a EXCEPT !.raised = "TypeError"]

\* variant of AddLabelStep: a registered key is overwritten without a test
AddLabelStep_Overwrite(a, typ, lab, obj) == StoreLabel(a, <<typ, lab>>, obj)

\* the body of the loop, for the label lab
AddLabelStep(a, typ, lab, obj) ==
    IF Registered(a.reg, <<typ, lab>>) THEN [a EXCEPT !.raised = "ValueError"]
    ELSE StoreLabel(a, <<typ, lab>>, obj)

\* variant of AddLabels: only the first label of the list is handled
AddLabels_FirstOnly(a, typ, labs, obj) ==
    IF labs = <<>> \/ a.raised /= NoError THEN a
    ELSE AddLabelStep(a, typ, Head(labs), obj)

RECURSIVE AddLabels(_, _, _, _)
AddLabels(a, typ, labs, obj) ==
    IF labs = <<>> \/ a.raised /= NoError THEN a
    ELSE AddLabels(AddLabelStep(a, typ, Head(labs), obj), typ, Tail(labs), obj)

\* the registry after the call, the exception raised, and the keys stored by the call
add_label(reg, typ, label, obj) ==
    AddLabels([reg |-> reg, raised |-> NoError, stored |-> <<>>], typ, LabelsOf(label), obj)

-----------------------------------------------------------------------------
(* Specification of the label registry: add_label on a dict, or on VHDLFiles.labels *)

Namespaces == {"entity", "library"}
LabelNames == {<<"a", "d", "c">>, <<"d", "a", "c">>}
LabelArgs ==
    {[single |-> l] : l \in LabelNames} \cup {[list |-> <<l, m>>] : l, m \in LabelNames}
Owners == {"obj1", "obj2"}
LabelKeys == Namespaces \X LabelNames

\* number of entries of `stored` that are the key k
Count(stored, k) == Cardinality({i \in 1..Len(stored) : stored[i] = k})

InitLabels ==
    /\ pc = "idle"
    /\ token_list = <<>>
    /\ tree = EmptyStore
    /\ raised = NoError
    /\ entities = <<>>
    /\ label_list \in {[kind |-> "dict", items |-> <<>>], [kind |-> "list", items |-> <<>>]}
    /\ inserted = [k \in LabelKeys |-> 0]
    /\ result = NoResult
    /\ calls = 0

AddLabel(typ, label, obj) ==
    /\ calls < MaxCalls
    /\ LET a == add_label(label_list, typ, label, obj)
       IN /\ label_list' = a.reg
          /\ raised' = a.raised
          /\ inserted' = [k \in LabelKeys |-> inserted[k] + Count(a.stored, k)]
    /\ result' = [call |-> "add_label", typ |-> typ, label |-> LabelsOf(label), obj |-> obj]
    /\ pc' = "add_label"
    /\ calls' = calls + 1
    /\ UNCHANGED <<token_list, tree, entities>>

NextLabels == \E typ \in Namespaces, label \in LabelArgs, obj \in Owners : AddLabel(typ, label, obj)

SpecLabels == InitLabels /\ [][NextLabels]_vars

-----------------------------------------------------------------------------
(* Properties of the label registry *)

\* the keys named by the add_label call recorded in r
CallKeys(r) == {<<r.typ, r.label[i]>> : i \in 1..Len(r.label)}

\* the step is a call of add_label
IsAddLabelCall == pc' = "add_label" /\ calls' = calls + 1

\* C6: add_label for a key that is registered with a different owner raises, and the key
\* still maps to its first owner afterwards; no key is ever stored more than once
C6_DuplicateLabelRaises ==
    /\ [](\A k \in LabelKeys : inserted[k] <= 1)
    /\ [][IsAddLabelCall =>
            \A k \in CallKeys(result') :
                (Registered(label_list, k) /\ DictGet(label_list.items, k) /= result'.obj) =>
                    /\ raised' = "ValueError"
                    /\ Registered(label_list', k)
                    /\ DictGet(label_list'.items, k) = DictGet(label_list.items, k)]_vars

\* add_label has raised for a key that another owner holds
C6_Witness ==
    /\ pc = "add_label"
    /\ raised = "ValueError"
    /\ \E k \in CallKeys(result) :
            /\ Registered(label_list, k)
            /\ DictGet(label_list.items, k) /= result.obj
            /\ inserted[k] = 1

\* C7: registering keys again with the owner they already have does not raise and leaves
\* the registry unchanged
C7_SameOwnerAccepted ==
    [][(IsAddLabelCall /\ \A k \in CallKeys(result') :
            Registered(label_list, k) /\ DictGet(label_list.items, k) = result'.obj) =>
        (raised' = NoError /\ label_list' = label_list)]_vars

-----------------------------------------------------------------------------
(* Entity analysis and lookup *)

\* Element.findall(tag) / Element.find(tag) for a plain tag: the children with that tag
findall(t, e, tag) == SelectSeq(t.kids[e], LAMBDA c : t.tag[c] = tag)
find(t, e, tag) == IF findall(t, e, tag) = <<>> THEN None ELSE Some(findall(t, e, tag)[1])

\* variant of get_head_and_tail_comments: a single block is head and tail
get_head_and_tail_comments_TailOfOne(t, node) ==
    [head |-> IF Len(findall(t, node, "comment_block")) > 0
              THEN Some(findall(t, node, "comment_block")[1]) ELSE None,
     tail |-> IF Len(findall(t, node, "comment_block")) > 0
              THEN Some(Last(findall(t, node, "comment_block"))) ELSE None]

\* get_head_and_tail_comments: the first comment_block child, and the last when there are several
get_head_and_tail_comments(t, node) ==
    [head |-> IF Len(findall(t, node, "comment_block")) > 0
              THEN Some(findall(t, node, "comment_block")[1]) ELSE None,
     tail |-> IF Len(findall(t, node, "comment_block")) > 1
              THEN Some(Last(findall(t, node, "comment_block"))) ELSE None]

\* the descriptor of an entity: the fields that the registry operations read
entity_info(t, top_elem, entity_node, entity_name) ==
    [name |-> entity_name,
     tail_comment |-> get_head_and_tail_comments(t, entity_node).tail,
     source_file |-> GetAttr(t, top_elem, "filename"),
     entity_node |-> entity_node,
     file_node |-> top_elem]

\* variant of RegisterEntity: the key is the name as declared
RegisterEntity_KeepCase(a, info) == [a EXCEPT !.items = DictSet(@, info.name, info)]

\* entities[entity_name.lower()] = entity_info
RegisterEntity(a, info) == [a EXCEPT !.items = DictSet(@, lower(info.name), info)]

\* the body of the loop over the entity_declaration children; the identifier is
\* dereferenced without a test
AnalyzeEntity(a, t, top_elem, entity_node) ==
    IF find(t, entity_node, "entity_declaration.identifier") = None
    THEN [a EXCEPT !.raised = "AttributeError"]
    ELSE RegisterEntity(a, entity_info(t, top_elem, entity_node,
            subtext(t, find(t, entity_node, "entity_declaration.identifier")[1])))

RECURSIVE AnalyzeEach(_, _, _, _)
AnalyzeEach(a, t, top_elem, nodes) ==
    IF nodes = <<>> \/ a.raised /= NoError THEN a
    ELSE AnalyzeEach(AnalyzeEntity(a, t, top_elem, Head(nodes)), t, top_elem, Tail(nodes))

\* the dict of the entities of one file (label_list is not used by the code)
analyze_entities(t, top_elem) ==
    AnalyzeEach([raised |-> NoError, items |-> <<>>], t, top_elem,
                findall(t, top_elem, "entity_declaration"))

\* variant of get_entity: a miss returns None, as Namespace.__getattr__ does
get_entity_NoRaise(ents, entity_name) ==
    IF HasKey(ents, lower(entity_name))
    THEN [raised |-> NoError, value |-> DictGet(ents, lower(entity_name))]
    ELSE [raised |-> NoError, value |-> None]

\* the descriptor, or the RuntimeError with the requested name and the known names
get_entity(ents, entity_name) ==
    IF HasKey(ents, lower(entity_name))
    THEN [raised |-> NoError, value |-> DictGet(ents, lower(entity_name))]
    ELSE [raised |-> "RuntimeError",
          value |-> [name |-> entity_name, known |-> join(<<",">>, DictKeys(ents))]]

-----------------------------------------------------------------------------
(* VHDLFiles.parse_file *)

Ident(name) == Token("entity_declaration.identifier", name, <<>>, <<>>)
End == Token("entity_declaration.semicolon", <<";">>, <<>>, <<"entity_declaration">>)
EntityDecl(name) == <<KW(TRUE, FALSE), WS, Ident(name), End, CR>>

\* the files on disk, as the token lists the tokenizer yields for them
FileNames == {"a.vhd", "b.vhd", "c.vhd", "d.vhd", "e.vhd"}
FileTokens(filename) ==
    CASE filename = "a.vhd" -> EntityDecl(<<"A", "b">>)
      [] filename = "b.vhd" -> EntityDecl(<<"A", "B">>)
      [] filename = "c.vhd" -> <<CM, CR>> \o EntityDecl(<<"b", "A">>)
      [] filename = "d.vhd" -> EntityDecl(<<"b", "A">>) \o <<CM, CR, CR>> \o EntityDecl(<<"B", "a">>)
      [] filename = "e.vhd" -> EntityDecl(<<"a", "a">>) \o <<KW(TRUE, FALSE), End, CR>>

\* self.summaries is created empty and never written
summaries == {}

ProjectRoot == 1

\* self.append(file_element); self.entities.update(self.analyze_entities(...)): the call has
\* returned file_element, unless the analysis raised after the file was appended
Analyzed(t, fe, ents, a) ==
    [tree |-> t, raised |-> a.raised,
     entities |-> IF a.raised = NoError THEN DictUpdate(ents, a.items) ELSE ents,
     value |-> IF a.raised = NoError THEN Some(fe) ELSE None]

\* after the comment pass: an exception of the builder or of the pass leaves the project as it was
AppendAndAnalyze(t0, t, fe, ents) ==
    IF t.raised /= NoError
    THEN [tree |-> t0, raised |-> t.raised, entities |-> ents, value |-> None]
    ELSE Analyzed(append(t, ProjectRoot, fe), fe, ents,
                  analyze_entities(append(t, ProjectRoot, fe), fe))

\* the project after parse_file(filename): no test stops a second parse of the same file
parse_file(t, ents, filename, recurse) ==
    AppendAndAnalyze(t,
        group_and_move_comments(token_list_to_element_tree(t, filename, FileTokens(filename)),
                                NewId(t), recurse),
        NewId(t), ents)

-----------------------------------------------------------------------------
(* Specification of a project: files are parsed and entities are looked up *)

Letters == {"a", "b", "A", "B"}
QueryNames == {<<x, y>> : x, y \in Letters}

InitProject ==
    /\ pc = "idle"
    /\ token_list = <<>>
    /\ tree = XElement(EmptyStore, "project", <<>>)
    /\ raised = NoError
    /\ entities = <<>>
    /\ label_list = [kind |-> "list", items |-> <<>>]
    /\ inserted = <<>>
    /\ result = NoResult
    /\ calls = 0

ParseFile(filename) ==
    /\ calls < MaxCalls
    /\ LET r == parse_file(tree, entities, filename, TRUE)
       IN /\ tree' = r.tree
          /\ entities' = r.entities
          /\ raised' = r.raised
          /\ result' = [call |-> "parse_file", arg |-> filename, value |-> r.value]
    /\ pc' = "parse_file"
    /\ calls' = calls + 1
    /\ UNCHANGED <<token_list, label_list, inserted>>

GetEntity(entity_name) ==
    /\ LET r == get_entity(entities, entity_name)
       IN /\ raised' = r.raised
          /\ result' = [call |-> "get_entity", arg |-> entity_name, value |-> r.value]
    /\ pc' = "get_entity"
    /\ UNCHANGED <<token_list, tree, entities, label_list, inserted, calls>>

NextProject ==
    \/ \E filename \in FileNames : ParseFile(filename)
    \/ \E entity_name \in QueryNames : GetEntity(entity_name)

SpecProject == InitProject /\ [][NextProject]_vars

-----------------------------------------------------------------------------
(* Properties of the project *)

FileNodes == tree.kids[ProjectRoot]
FileNameOf(f) == tree.attrib[f].filename

\* the file nodes of the project root that were built for the path filename
NodesOfPath(filename) == SelectSeq(FileNodes, LAMBDA f : FileNameOf(f) = filename)

\* the case-folded entity names that the file declares
DeclaredKeys(filename) ==
    {lower(FileTokens(filename)[i].value) :
        i \in {j \in 1..Len(FileTokens(filename)) :
                 FileTokens(filename)[j].tag = "entity_declaration.identifier"}}

\* the step is a call of parse_file
IsParseFileCall == pc' = "parse_file" /\ calls' = calls + 1

\* C5: idempotent re-parse: the project root holds one file node per path, and a
\* parse_file that returns gives back the file node first built for that path
C5_ReparseIsIdempotent ==
    /\ \A i, j \in 1..Len(FileNodes) :
            i /= j => FileNameOf(FileNodes[i]) /= FileNameOf(FileNodes[j])
    /\ (pc = "parse_file" /\ raised = NoError) =>
            result.value = Some(NodesOfPath(result.arg)[1])

\* C8: parsing a file that declares an entity whose case-folded name is registered for an
\* entity of another file fails, and get_entity still returns the registered descriptor
C8_DuplicateEntityFails ==
    [][IsParseFileCall =>
        \A i \in 1..Len(entities) :
            (/\ entities[i].key \in DeclaredKeys(result'.arg)
             /\ entities[i].value.source_file /= result'.arg) =>
                /\ raised' /= NoError
                /\ get_entity(entities', entities[i].value.name)
                       = [raised |-> NoError, value |-> entities[i].value]]_vars

\* C9: case-insensitive lookup: every registry key is the lower-cased name of its
\* descriptor, the descriptor keeps the name as it is written in the declaration, and
\* get_entity returns the descriptor for every spelling of the name in any letter case
C9_CaseInsensitiveLookup ==
    \A i \in 1..Len(entities) :
        LET info == entities[i].value
        IN /\ entities[i].key = lower(info.name)
           /\ info.name = subtext(tree, find(tree, info.entity_node,
                                             "entity_declaration.identifier")[1])
           /\ \A M \in QueryNames :
                lower(M) = lower(info.name) =>
                    get_entity(entities, M) = [raised |-> NoError, value |-> info]

\* get_entity has returned a descriptor for a spelling that differs from the declared,
\* mixed-case name, with two entities registered
C9_Witness ==
    /\ pc = "get_entity"
    /\ raised = NoError
    /\ Len(entities) >= 2
    /\ result.arg /= result.value.name
    /\ result.value.name /= lower(result.value.name)
    /\ result.arg /= lower(result.arg)

\* C10: get_entity for a name whose case-folded form is not registered raises the
\* not-found error with the requested name and the registered names, and the registry
\* is unchanged
C10_MissRaisesNotFound ==
    [][(pc' = "get_entity" /\ ~HasKey(entities, lower(result'.arg))) =>
        /\ raised' = "RuntimeError"
        /\ result'.value.name = result'.arg
        /\ result'.value.known
              = join(<<",">>, [i \in 1..Len(entities) |-> lower(entities[i].value.name)])
        /\ entities' = entities]_vars

\* a lookup has missed while two entities were registered
C10_Witness ==
    /\ pc = "get_entity"
    /\ raised = "RuntimeError"
    /\ Len(entities) >= 2
    /\ ~HasKey(entities, lower(result.arg))
    /\ result.value.known = <<"a", "b", ",", "b", "a">>

-----------------------------------------------------------------------------
(* VHDLFiles.analyze_entity_interface *)

\* self.find(path) for a bound given as a path: the element, or None, which no element equals
NoneNode == 0
FindBound(t, self, path) ==
    <<IF find(t, self, path) = None THEN NoneNode ELSE find(t, self, path)[1]>>

\* ''.join(n.text or '' for n in ...)
RECURSIVE TextOfEach(_, _)
TextOfEach(t, es) == IF es = <<>> THEN <<>> ELSE t.text[Head(es)] \o TextOfEach(t, Tail(es))

\* subtextbetween with the bounds the analyzer passes: start_after and end_before, as paths
subtextbetween(t, self, start_after, end_before) ==
    TextOfEach(t, iterbetween(t, self, <<>>, FindBound(t, self, start_after),
                              FindBound(t, self, end_before), <<>>, TRUE))

SubtextOfEach(t, es) == [i \in 1..Len(es) |-> subtext(t, es[i])]

\* the Namespace of a declaration: names, definition, comments
DeclarationEntry(t, elem) ==
    [names |-> SubtextOfEach(t, findall(t, elem, "interface_unknown_declaration.identifier")),
     definition |-> Some(subtextbetween(t, elem, "interface_unknown_declaration.colon",
                                        "comment_block")),
     comments |-> join(<<";">>, SubtextOfEach(t, findall(t, elem, "comment_block")))]

\* the Namespace of a bare comment block
SeparatorEntry(t, elem) == [names |-> <<>>, definition |-> None, comments |-> subtext(t, elem)]

\* variant of InterfaceEntry: only the declarations give an entry
InterfaceEntry_NoSeparator(t, elem) ==
    IF t.tag[elem] = "interface_unknown_declaration" THEN <<DeclarationEntry(t, elem)>>
    ELSE <<>>

\* the body of the loop: what one child of the clause appends to interface_list
InterfaceEntry(t, elem) ==
    IF t.tag[elem] = "interface_unknown_declaration" THEN <<DeclarationEntry(t, elem)>>
    ELSE IF t.tag[elem] = "comment_block" THEN <<SeparatorEntry(t, elem)>>
    ELSE <<>>

RECURSIVE InterfaceEntries(_, _)
InterfaceEntries(t, elems) ==
    IF elems = <<>> THEN <<>>
    ELSE InterfaceEntry(t, Head(elems)) \o InterfaceEntries(t, Tail(elems))

\* interface_nodes is None or the clause element; an element without children is false
analyze_entity_interface(t, interface_nodes) ==
    IF interface_nodes = None THEN <<>>
    ELSE IF t.kids[interface_nodes[1]] = <<>> THEN <<>>
    ELSE InterfaceEntries(t, t.kids[interface_nodes[1]])

-----------------------------------------------------------------------------
(* Specification of the interface analysis: a port clause and its children *)

MaxKids == 3       \* children of a generated clause

\* a subtree to attach: the tags, texts and child lists of its elements, the first one
\* being its root; the child lists count from the root of the subtree
Leaf(tag, text) == [tag |-> <<tag>>, text |-> <<text>>, kids |-> <<<<>>>>]

\* a comment_block as group() leaves it: the comment and the line end
CommentBlock(text) ==
    [tag |-> <<"comment_block", "parser.comment", "parser.carriage_return">>,
     text |-> <<NoText, <<"-", "-">> \o text, <<"\n">>>>,
     kids |-> <<<<2, 3>>, <<>>, <<>>>>]

\* p : in
OneNameDeclaration ==
    [tag |-> <<"interface_unknown_declaration", "interface_unknown_declaration.identifier",
               "interface_unknown_declaration.colon", "mode.in_keyword">>,
     text |-> <<NoText, <<"p">>, <<":">>, <<"i", "n">>>>,
     kids |-> <<<<2, 3, 4>>, <<>>, <<>>, <<>>>>]

\* q,r : in --z
TwoNamesDeclaration ==
    [tag |-> <<"interface_unknown_declaration", "interface_unknown_declaration.identifier",
               "interface_unknown_declaration.comma",
               "interface_unknown_declaration.identifier",
               "interface_unknown_declaration.colon", "mode.in_keyword",
               "comment_block", "parser.comment", "parser.carriage_return">>,
     text |-> <<NoText, <<"q">>, <<",">>, <<"r">>, <<":">>, <<"i", "n">>,
                NoText, <<"-", "-", "z">>, <<"\n">>>>,
     kids |-> <<<<2, 3, 4, 5, 6, 7>>, <<>>, <<>>, <<>>, <<>>, <<>>, <<8, 9>>, <<>>, <<>>>>]

\* --h / s : in --t   (a declaration with a header block as first child and a trailer)
HeadedDeclaration ==
    [tag |-> <<"interface_unknown_declaration",
               "comment_block", "parser.comment", "parser.carriage_return",
               "interface_unknown_declaration.identifier",
               "interface_unknown_declaration.colon", "mode.in_keyword",
               "comment_block", "parser.comment", "parser.carriage_return">>,
     text |-> <<NoText, NoText, <<"-", "-", "h">>, <<"\n">>, <<"s">>, <<":">>, <<"i", "n">>,
                NoText, <<"-", "-", "t">>, <<"\n">>>>,
     kids |-> <<<<2, 5, 6, 7, 8>>, <<3, 4>>, <<>>, <<>>, <<>>, <<>>, <<>>, <<9, 10>>, <<>>, <<>>>>]

\* parent.append(root of the subtree d): the elements of d get the next identities
AddTree(t, parent, d) ==
    LET n == Len(t.tag)
    IN [t EXCEPT !.tag = @ \o d.tag,
                 !.attrib = @ \o [i \in 1..Len(d.tag) |-> <<>>],
                 !.text = @ \o d.text,
                 !.kids = [@ EXCEPT ![parent] = Append(@, n + 1)]
                            \o [i \in 1..Len(d.tag) |->
                                  [j \in 1..Len(d.kids[i]) |-> n + d.kids[i][j]]]]

RECURSIVE AddChildren(_, _, _)
AddChildren(t, parent, ds) ==
    IF ds = <<>> THEN t ELSE AddChildren(AddTree(t, parent, Head(ds)), parent, Tail(ds))

\* the children a clause can have
ClauseChildren ==
    { CommentBlock(<<"x">>), CommentBlock(<<"y">>), OneNameDeclaration, TwoNamesDeclaration,
      HeadedDeclaration,
      Leaf("port_clause.open_parenthesis", <<"(">>), Leaf("parser.whitespace", <<" ">>) }

SeqsUpTo(S, n) == UNION {[1..k -> S] : k \in 0..n}

ClauseRoot == 1

InitInterface ==
    /\ pc = "idle"
    /\ token_list = <<>>
    /\ \E ds \in SeqsUpTo(ClauseChildren, MaxKids) :
           tree = AddChildren(XElement(EmptyStore, "port_clause", <<>>), ClauseRoot, ds)
    /\ raised = NoError
    /\ entities = <<>>
    /\ label_list = [kind |-> "list", items |-> <<>>]
    /\ inserted = <<>>
    /\ result = NoResult
    /\ calls = 0

AnalyzeInterface(interface_nodes) ==
    /\ pc = "idle"
    /\ result' = [call |-> "analyze_entity_interface", arg |-> interface_nodes,
                  value |-> analyze_entity_interface(tree, interface_nodes)]
    /\ pc' = "analyzed"
    /\ UNCHANGED <<token_list, tree, raised, entities, label_list, inserted, calls>>

NextInterface == \E interface_nodes \in {None, Some(ClauseRoot)} : AnalyzeInterface(interface_nodes)

SpecInterface == InitInterface /\ [][NextInterface]_vars

\* the children of the clause that are separators or declarations
InterfaceChildren ==
    SelectSeq(tree.kids[ClauseRoot],
              LAMBDA c : tree.tag[c] \in {"comment_block", "interface_unknown_declaration"})

\* C11: separator preservation: the result has one element per comment_block or
\* declaration child of the clause, in the order of the children; a comment_block gives
\* an element with no names and the block's text as comment, a declaration gives an
\* element with the declared names
C11_SeparatorPreserved ==
    (pc = "analyzed" /\ result.arg = Some(ClauseRoot)) =>
        /\ Len(result.value) = Len(InterfaceChildren)
        /\ \A i \in 1..Len(InterfaceChildren) :
              IF tree.tag[InterfaceChildren[i]] = "comment_block"
              THEN /\ result.value[i].names = <<>>
                   /\ result.value[i].comments = subtext(tree, InterfaceChildren[i])
                   /\ result.value[i].comments /= <<>>
              ELSE /\ result.value[i].names /= <<>>
                   /\ result.value[i].names =
                         SubtextOfEach(tree, findall(tree, InterfaceChildren[i],
                                          "interface_unknown_declaration.identifier"))

\* a clause with a separator between two declarations has been analyzed
C11_Witness ==
    /\ pc = "analyzed"
    /\ Len(result.value) = 3
    /\ result.value[1].names = <<<<"q">>, <<"r">>>>
    /\ result.value[2].names = <<>>
    /\ result.value[2].comments = <<"-", "-", "x", "\n">>
    /\ result.value[3].names = <<<<"p">>>>

-----------------------------------------------------------------------------
(* Properties of the builder's stack of open elements *)

\* len(elem) after the tokens toks, started at depth: one push per enter mark, one pop
\* per leave mark
RECURSIVE StackDepth(_, _)
StackDepth(depth, toks) ==
    IF toks = <<>> THEN depth
    ELSE StackDepth(depth + Len(Head(toks).enter_prod) - Len(Head(toks).leave_prod),
                    Tail(toks))

\* C12: token_list_to_element_tree returns a tree only if the stack of open elements is
\* back to the root alone at the end of the stream, and never after a leave mark has
\* popped the root
C12_UnbalancedFails ==
    pc \in {"built", "grouped"} =>
        /\ StackDepth(1, token_list) = 1
        /\ \A i \in 1..Len(token_list) : StackDepth(1, SubSeq(token_list, 1, i)) >= 1

-----------------------------------------------------------------------------
(* Specification of the XElement operations: move, group and iterbetween on a tree *)

\* a production with two tokens
TwoTokenNode ==
    [tag |-> <<"prod", "tok.c", "tok.d">>,
     text |-> <<NoText, <<"c">>, <<"d">>>>,
     kids |-> <<<<2, 3>>, <<>>, <<>>>>]

\* the children the scope can have
ScopeChildren == {Leaf("tok.a", <<"a">>), Leaf("tok.b", <<"b">>), TwoTokenNode}

ScopeRoot == 1

\* the elements that have children: the receivers of the calls
Parents(t) == {e \in Elements(t) : t.kids[e] /= <<>>}

\* the lists of distinct children of self, of up to n elements, in any order
ChildLists(t, self, n) ==
    {L \in SeqsUpTo({t.kids[self][i] : i \in 1..Len(t.kids[self])}, n) :
        \A i, j \in 1..Len(L) : i /= j => L[i] /= L[j]}

\* the argument `element` of move: one child, or a list of children
MoveArgs(t, self) ==
    {[node |-> n] : n \in {t.kids[self][i] : i \in 1..Len(t.kids[self])}}
        \cup {[list |-> L] : L \in ChildLists(t, self, 2) \ {<<>>}}

\* the elements that move
Moved(element) == IF IsList(element) THEN element.list ELSE <<element.node>>

\* the elements of the subtrees of es
Below(t, es) == UNION {Reachable(t, es[i]) : i \in 1..Len(es)}

IndexArgs == {None, Some(-1), Some(0), Some(1), Some(-2)}

InitXElement ==
    /\ pc = "idle"
    /\ token_list = <<>>
    /\ \E ds \in SeqsUpTo(ScopeChildren, MaxKids) :
           tree = AddChildren(XElement(EmptyStore, "scope", <<>>), ScopeRoot, ds)
    /\ raised = NoError
    /\ entities = <<>>
    /\ label_list = [kind |-> "list", items |-> <<>>]
    /\ inserted = <<>>
    /\ result = NoResult
    /\ calls = 0

\* self.move(element, target_element, index); an exception leaves what was done before it
Move(self, element, target_element, index) ==
    /\ pc = "idle"
    /\ LET t == move(tree, self, element, target_element, index)
       IN /\ tree' = [t EXCEPT !.raised = NoError]
          /\ raised' = t.raised
    /\ result' = [call |-> "move", self |-> self, element |-> element,
                  target_element |-> target_element, index |-> index]
    /\ pc' = "move"
    /\ UNCHANGED <<token_list, entities, label_list, inserted, calls>>

\* self.group(element_list, tag): the value is the new element, or None
Group(self, element_list, tag) ==
    /\ pc = "idle"
    /\ LET t == group(tree, self, element_list, tag)
       IN /\ tree' = [t EXCEPT !.raised = NoError]
          /\ raised' = t.raised
          /\ result' = [call |-> "group", self |-> self, element_list |-> element_list,
                        tag |-> tag,
                        value |-> IF element_list = <<>> \/ t.raised /= NoError
                                  THEN None ELSE Some(NewId(tree))]
    /\ pc' = "group"
    /\ UNCHANGED <<token_list, entities, label_list, inserted, calls>>

\* list(self.iterbetween(...)) with at most one start bound and one stop bound
IterBetween(self, start_at, start_after, stop_before, stop_at, recurse) ==
    /\ pc = "idle"
    /\ result' = [call |-> "iterbetween", self |-> self, start_at |-> start_at,
                  start_after |-> start_after, stop_before |-> stop_before,
                  stop_at |-> stop_at, recurse |-> recurse,
                  value |-> iterbetween(tree, self, start_at, start_after,
                                        stop_before, stop_at, recurse)]
    /\ pc' = "iterbetween"
    /\ UNCHANGED <<token_list, tree, raised, entities, label_list, inserted, calls>>

\* no bound, or one element of the subtree of self as the bound
Bounds(t, self) == {<<>>} \cup {<<e>> : e \in Reachable(t, self)}

NextXElement ==
    \/ \E self \in Parents(tree) : \E element \in MoveArgs(tree, self) :
         \E target_element \in Elements(tree) \ Below(tree, Moved(element)) :
            \E index \in IndexArgs : Move(self, element, target_element, index)
    \/ \E self \in Parents(tree) : \E element_list \in ChildLists(tree, self, MaxKids) :
         Group(self, element_list, "grp")
    \/ \E self \in Parents(tree) : \E start \in Bounds(tree, self), stop \in Bounds(tree, self) :
         \E s \in BOOLEAN, e \in BOOLEAN, recurse \in BOOLEAN :
            IterBetween(self, IF s THEN start ELSE <<>>, IF s THEN <<>> ELSE start,
                        IF e THEN stop ELSE <<>>, IF e THEN <<>> ELSE stop, recurse)

SpecXElement == InitXElement /\ [][NextXElement]_vars

-----------------------------------------------------------------------------
(* Properties of move, group and iterbetween *)

Without(s, x) == SelectSeq(s, LAMBDA y : y /= x)

\* the step is a call of move with one element, and an index that move accepts
IsMoveOfNode ==
    /\ pc' = "move"
    /\ ~IsList(result'.element)
    /\ result'.index \in {None, Some(-1), Some(0), Some(1)}

\* C13: move of a single child n of S into T returns, n is no longer a child of S and is a
\* child of T, last when the index is absent or -1 and at the index otherwise; n keeps
\* its children and no other child list changes
C13_MoveSingleNode ==
    [][IsMoveOfNode =>
        LET n == result'.element.node
            S == result'.self
            T == result'.target_element
            index == result'.index
        IN /\ raised' = NoError
           /\ S /= T => ~InSeq(n, tree'.kids[S])
           /\ Len(SelectSeq(tree'.kids[T], LAMBDA y : y = n)) = 1
           /\ IF index \in {None, Some(-1)}
              THEN Last(tree'.kids[T]) = n
              ELSE tree'.kids[T][Min(index[1], Len(Without(tree.kids[T], n))) + 1] = n
           /\ tree'.kids[n] = tree.kids[n]
           /\ \A p \in Elements(tree) :
                 Without(tree'.kids[p], n) = Without(tree.kids[p], n)]_vars


\* the positions of the elements of L in the child list k
PositionsOf(k, L) == {i \in 1..Len(k) : InSeq(k[i], L)}

\* L is a run of consecutive elements of k, in the order of k
IsRun(k, L) == \E i \in 1..Len(k) : i + Len(L) - 1 <= Len(k) /\ SubSeq(k, i, i + Len(L) - 1) = L

\* the step is a call of group
IsGroupCall == pc' = "group"

\* C14: group of a non-empty run L of consecutive children of S returns a new element
\* with the tag and with the children L in order, that stands in S where the first
\* element of L stood; the other children of S and the other child lists are as before
C14_GroupReplacesRun ==
    [][(IsGroupCall /\ result'.element_list /= <<>>
            /\ IsRun(tree.kids[result'.self], result'.element_list)) =>
        LET S == result'.self
            L == result'.element_list
            k == tree.kids[S]
            i == IndexOf(L[1], k)
        IN /\ raised' = NoError
           /\ result'.value /= None
           /\ result'.value[1] \notin Elements(tree)
           /\ tree'.tag[result'.value[1]] = result'.tag
           /\ tree'.kids[result'.value[1]] = L
           /\ tree'.kids[S] = SubSeq(k, 1, i - 1) \o result'.value
                                \o SubSeq(k, i + Len(L), Len(k))
           /\ \A p \in Elements(tree) \ {S} : tree'.kids[p] = tree.kids[p]]_vars

\* two children were grouped and the new element stands before another child of the scope
C14_Witness ==
    /\ pc = "group"
    /\ raised = NoError
    /\ Len(result.element_list) = 2
    /\ result.value /= None
    /\ tree.kids[result.self] = result.value \o <<4>>
    /\ tree.kids[result.value[1]] = result.element_list

\* C15: group of a non-empty list of children of S whose elements are not consecutive
\* children fails and leaves the tree as it was; group of an empty list returns without
\* a new element and leaves the tree as it was
C15_GroupRejectsGaps ==
    [][IsGroupCall =>
        LET k == tree.kids[result'.self]
            L == result'.element_list
        IN /\ (L /= <<>> /\ \E i, j \in PositionsOf(k, L) :
                                \E m \in i..j : m \notin PositionsOf(k, L)) =>
                  (raised' /= NoError /\ tree' = tree)
           /\ L = <<>> => (raised' = NoError /\ tree' = tree /\ result'.value = None)]_vars

-----------------------------------------------------------------------------
(* Specification of the steps of group and move: one statement of the loops per step *)

\* group, up to ne.extend(element_list): the index is found and the new element is filled
GroupExtend(self, element_list, tag) ==
    /\ pc = "idle"
    /\ element_list /= <<>>
    /\ tree' = extend(XElement(tree, tag, <<>>), NewId(tree), element_list)
    /\ result' = [call |-> "group", self |-> self, pending |-> element_list,
                  i |-> GroupIndex(tree, self, element_list[1]), ne |-> NewId(tree)]
    /\ pc' = "group.remove"
    /\ UNCHANGED <<token_list, raised, entities, label_list, inserted, calls>>

\* self.remove(ee) for the next element of element_list
GroupRemove ==
    /\ pc = "group.remove"
    /\ result.pending /= <<>>
    /\ tree' = remove(tree, result.self, Head(result.pending))
    /\ result' = [result EXCEPT !.pending = Tail(@)]
    /\ UNCHANGED <<pc, token_list, raised, entities, label_list, inserted, calls>>

\* self.insert(i, ne)
GroupInsert ==
    /\ pc = "group.remove"
    /\ result.pending = <<>>
    /\ tree' = insert(tree, result.self, result.i, result.ne)
    /\ pc' = "group.done"
    /\ UNCHANGED <<result, token_list, raised, entities, label_list, inserted, calls>>

\* move of a list, up to the loop: the elements in the order the loop takes them
MoveBegin(self, element_list, target_element, index) ==
    /\ pc = "idle"
    /\ result' = [call |-> "move", self |-> self, target_element |-> target_element,
                  index |-> index,
                  pending |-> IF index \in {None, Some(-1)} THEN element_list
                              ELSE Reverse(element_list)]
    /\ pc' = "move.remove"
    /\ UNCHANGED <<tree, token_list, raised, entities, label_list, inserted, calls>>

\* self.remove(ee)
MoveRemove ==
    /\ pc = "move.remove"
    /\ result.pending /= <<>>
    /\ tree' = remove(tree, result.self, Head(result.pending))
    /\ pc' = "move.attach"
    /\ UNCHANGED <<result, token_list, raised, entities, label_list, inserted, calls>>

\* target_element.append(ee), or target_element.insert(index, ee)
MoveAttach ==
    /\ pc = "move.attach"
    /\ tree' = IF result.index \in {None, Some(-1)}
               THEN append(tree, result.target_element, Head(result.pending))
               ELSE insert(tree, result.target_element, result.index[1], Head(result.pending))
    /\ result' = [result EXCEPT !.pending = Tail(@)]
    /\ pc' = IF Tail(result.pending) = <<>> THEN "move.done" ELSE "move.remove"
    /\ UNCHANGED <<token_list, raised, entities, label_list, inserted, calls>>

NextSteps ==
    \/ \E self \in Parents(tree) : \E element_list \in ChildLists(tree, self, MaxKids) :
          GroupExtend(self, element_list, "grp")
    \/ GroupRemove
    \/ GroupInsert
    \/ \E self \in Parents(tree) : \E element_list \in ChildLists(tree, self, 2) \ {<<>>} :
         \E target_element \in Elements(tree) \ Below(tree, element_list) :
            \E index \in {None, Some(0)} : MoveBegin(self, element_list, target_element, index)
    \/ MoveRemove
    \/ MoveAttach

SpecSteps == InitXElement /\ [][NextSteps]_vars

\* number of times e occurs in the child lists of the store
RECURSIVE Occurrences(_, _, _)
Occurrences(t, e, p) ==
    IF p = 0 THEN 0
    ELSE Len(SelectSeq(t.kids[p], LAMBDA c : c = e)) + Occurrences(t, e, p - 1)

\* C16: single ownership: in every state of a group or a move, between the steps too,
\* every element other than the root (and other than the new element that group has
\* not inserted yet) is in exactly one child list, exactly once
C16_SingleOwnership ==
    \A e \in Elements(tree) \ {ScopeRoot} :
        \/ pc = "group.remove" /\ e = result.ne
        \/ Occurrences(tree, e, Len(tree.tag)) = 1

-----------------------------------------------------------------------------
(* Properties of iterbetween *)

\* the elements iterbetween goes through, and the position of a bound among them
Candidates(r) == IF r.recurse THEN iter(tree, r.self) ELSE tree.kids[r.self]
BoundPos(r, b) == IndexOf(b[1], Candidates(r))

\* every bound of the call is one of the elements gone through
BoundsAmongCandidates(r) ==
    \A b \in {r.start_at, r.start_after, r.stop_before, r.stop_at} :
        b /= <<>> => InSeq(b[1], Candidates(r))

\* first and last position that the bounds of the call let through
FirstPos(r) ==
    IF r.start_at /= <<>> THEN BoundPos(r, r.start_at)
    ELSE IF r.start_after /= <<>> THEN BoundPos(r, r.start_after) + 1
    ELSE 1
LastPos(r) ==
    IF r.stop_at /= <<>> THEN BoundPos(r, r.stop_at)
    ELSE IF r.stop_before /= <<>> THEN BoundPos(r, r.stop_before) - 1
    ELSE Len(Candidates(r))

\* the stop bound is located before the start bound, or both bounds exclude the same element
StopPrecedesStart(r) ==
    /\ r.start_at \o r.start_after /= <<>>
    /\ r.stop_at \o r.stop_before /= <<>>
    /\ \/ BoundPos(r, r.stop_at \o r.stop_before) < BoundPos(r, r.start_at \o r.start_after)
       \/ r.start_after /= <<>> /\ r.start_after = r.stop_before

\* C17 as stated: iterbetween yields, in document order and once each, exactly the
\* elements from the start bound (start_at included, start_after excluded) to the stop
\* bound (stop_at included, stop_before excluded), among the children only when recurse
\* is false, and nothing located after the stop bound
C17_YieldsBetweenBounds ==
    (pc = "iterbetween" /\ BoundsAmongCandidates(result)) =>
        result.value = SubSeq(Candidates(result), FirstPos(result), LastPos(result))

\* C17 as amended: the same, for a stop bound that is not located before the start bound
C17_YieldsBetweenOrderedBounds ==
    (pc = "iterbetween" /\ BoundsAmongCandidates(result) /\ ~StopPrecedesStart(result)) =>
        /\ result.value = SubSeq(Candidates(result), FirstPos(result), LastPos(result))
        /\ \A i, j \in 1..Len(result.value) : i < j => result.value[i] /= result.value[j]

\* a recursive iteration between an excluded start and an included stop inside a production
\* has yielded elements and has left out elements on both sides
C17_Witness ==
    /\ pc = "iterbetween"
    /\ result.recurse
    /\ result.start_after /= <<>>
    /\ result.stop_at /= <<>>
    /\ BoundsAmongCandidates(result)
    /\ ~StopPrecedesStart(result)
    /\ ~InSeq(result.stop_at[1], tree.kids[result.self])
    /\ Len(result.value) >= 2
    /\ FirstPos(result) > 2
    /\ LastPos(result) < Len(Candidates(result))

-----------------------------------------------------------------------------
(* Properties of the tail attachment *)

\* a token that may stand between a production and its trailing comment
IsTrailer(t, e) ==
    t.kids[e] = <<>> /\ (t.tag[e] = "parser.whitespace" \/ t.text[e] = <<";">>)

\* k[c] is a comment on the line of the production k[j]: only trailers between them
TrailsProd(t, k, j, c) ==
    /\ j < c
    /\ IsProd(t, k[j])
    /\ t.tag[k[c]] = "parser.comment"
    /\ \A m \in (j + 1)..(c - 1) : IsTrailer(t, k[m])

\* the one-line group of the comment k[c] is ended by a blank line or by a token that is
\* no production
EndsAfterLine(t, k, c) ==
    /\ c + 2 <= Len(k)
    /\ t.tag[k[c + 1]] = "parser.carriage_return"
    /\ t.kids[k[c + 2]] = <<>>
    /\ t.tag[k[c + 2]] \notin {"parser.whitespace", "parser.comment",
                               "delimited_comment.beginning"}

\* C18: tail attachment: a comment that begins on the line of a production P, with only
\* whitespace and ';' between them, and whose group is ended by a blank line or by a
\* token that is no production, ends up in a comment_block that is the last child of P,
\* after the tokens that stood between P and the block, in their order; the block and
\* those tokens are no longer children of the enclosing scope
C18_TailAttached ==
    pc = "grouped" =>
        \A s \in Reachable(BuiltTree, 1) :
            LET k == BuiltTree.kids[s]
            IN \A j, c \in 1..Len(k) :
                (TrailsProd(BuiltTree, k, j, c) /\ EndsAfterLine(BuiltTree, k, c)) =>
                    LET P == k[j]
                        b == Last(tree.kids[P])
                        between == SelectSeq(SubSeq(k, j + 1, c - 1),
                                             LAMBDA e : ~InSeq(e, tree.kids[b]))
                        n == Len(tree.kids[P])
                    IN /\ tree.tag[b] = "comment_block"
                       /\ InSeq(k[c], tree.kids[b])
                       /\ ~InSeq(b, tree.kids[s])
                       /\ n > Len(between)
                       /\ SubSeq(tree.kids[P], n - Len(between), n - 1) = between
                       /\ \A m \in 1..Len(between) : ~InSeq(between[m], tree.kids[s])

-----------------------------------------------------------------------------
(* Text of comments: str methods, textwrap.dedent, remove_comment_marks *)

Whitespace == {" ", "\t"}

startswith(s, p) == Len(s) >= Len(p) /\ SubSeq(s, 1, Len(p)) = p
endswith(s, p) == Len(s) >= Len(p) /\ SubSeq(s, Len(s) - Len(p) + 1, Len(s)) = p

\* number of leading characters of s that are whitespace
RECURSIVE Indent(_)
Indent(s) == IF s /= <<>> /\ Head(s) \in Whitespace THEN 1 + Indent(Tail(s)) ELSE 0

lstrip(s) == SubSeq(s, Indent(s) + 1, Len(s))
strip(s) == Reverse(lstrip(Reverse(lstrip(s))))

\* s.find(target) >= 0
RECURSIVE Contains(_, _)
Contains(s, target) ==
    IF startswith(s, target) THEN TRUE
    ELSE IF s = <<>> THEN FALSE
    ELSE Contains(Tail(s), target)

\* s.replace(old, ''), for a non-empty old
RECURSIVE Remove(_, _)
Remove(s, old) ==
    IF s = <<>> THEN <<>>
    ELSE IF startswith(s, old) THEN Remove(SubSeq(s, Len(old) + 1, Len(s)), old)
    ELSE <<Head(s)>> \o Remove(Tail(s), old)

\* s.splitlines() for the line end "\n": a final line end opens no line
RECURSIVE SplitFrom(_, _)
SplitFrom(s, line) ==
    IF s = <<>> THEN (IF line = <<>> THEN <<>> ELSE <<line>>)
    ELSE IF Head(s) = "\n" THEN <<line>> \o SplitFrom(Tail(s), <<>>)
    ELSE SplitFrom(Tail(s), Append(line, Head(s)))
splitlines(s) == SplitFrom(s, <<>>)

\* the lines of textwrap.dedent that have text: a whitespace-only line counts for nothing
HasText(line) == Indent(line) < Len(line)

\* the common margin of the lines with text (the text only has spaces as whitespace):
\* the least indentation, 0 when no line has text
RECURSIVE MarginFrom(_, _)
MarginFrom(lines, m) ==
    IF lines = <<>> THEN (IF m = None THEN 0 ELSE m[1])
    ELSE IF ~HasText(Head(lines)) THEN MarginFrom(Tail(lines), m)
    ELSE IF m = None THEN MarginFrom(Tail(lines), Some(Indent(Head(lines))))
    ELSE MarginFrom(Tail(lines), Some(Min(m[1], Indent(Head(lines)))))
Margin(lines) == MarginFrom(lines, None)

\* textwrap.dedent of the lines: whitespace-only lines are emptied, the margin is cut
DedentLines(lines) ==
    [i \in 1..Len(lines) |->
        IF HasText(lines[i]) THEN SubSeq(lines[i], Margin(lines) + 1, Len(lines[i]))
        ELSE <<>>]

\* '\n'.join(lines).splitlines(): a final empty line is lost
Rejoin(lines) == splitlines(join(<<"\n">>, lines))

\* VHDLFiles.dedent
dedent(s) == Rejoin(DedentLines(s))

\* VHDLFiles.is_header: a fence of three equal characters followed by something else
is_header(s) ==
    /\ s /= <<>>
    /\ s[1] \in {"*", "=", "-", "#", "%", "^"}
    /\ startswith(s, <<s[1], s[1], s[1]>>)
    /\ \E i \in 1..Len(s) : s[i] /= s[1]

\* if s.startswith(ss): s = s[len(ss):]
CutPrefix(s, ss) == IF startswith(s, ss) THEN SubSeq(s, Len(ss) + 1, Len(s)) ELSE s
\* if s.endswith(ss): s = s[:-len(ss)]
CutSuffix(s, ss) == IF endswith(s, ss) THEN SubSeq(s, 1, Len(s) - Len(ss)) ELSE s

\* the body of the loop of remove_comment_marks for a line that is no header
CleanLine(line) ==
    Remove(Remove(CutSuffix(CutPrefix(CutPrefix(CutPrefix(strip(line), <<"/", "*">>),
                                                <<"-", "-", "!">>),
                                      <<"-", "-">>),
                            <<"*", "/">>),
                  <<"@", "b", "r", "i", "e", "f">>),
           <<"@", "d", "e", "t", "a", "i", "l", "s">>)

RECURSIVE CleanLines(_)
CleanLines(lines) ==
    IF lines = <<>> THEN <<>>
    ELSE IF is_header(Head(lines)) THEN CleanLines(Tail(lines))
    ELSE <<CleanLine(Head(lines))>> \o CleanLines(Tail(lines))

remove_comment_marks(lines, dedent_lines) ==
    IF dedent_lines THEN dedent(CleanLines(lines)) ELSE CleanLines(lines)

-----------------------------------------------------------------------------
(* VHDLFiles.split_block_comments *)

\* variant of SplitLine: every empty line ends the brief, the first line too
SplitLine_AnyBlank(st, line) ==
    IF st.is_brief /\ line = <<>> THEN [st EXCEPT !.is_brief = FALSE]
    ELSE IF st.is_brief THEN [st EXCEPT !.brief = Append(@, strip(line))]
    ELSE [st EXCEPT !.details = Append(@, line)]

\* the body of the loop: an empty line, once the brief has a line, ends the brief
SplitLine(st, line) ==
    IF st.is_brief /\ st.brief /= <<>> /\ line = <<>> THEN [st EXCEPT !.is_brief = FALSE]
    ELSE IF st.is_brief THEN [st EXCEPT !.brief = Append(@, strip(line))]
    ELSE [st EXCEPT !.details = Append(@, line)]

RECURSIVE SplitLines(_, _)
SplitLines(st, lines) ==
    IF lines = <<>> THEN st ELSE SplitLines(SplitLine(st, Head(lines)), Tail(lines))

\* block_comments is None or a comment_block; an element without children is false
split_block_comments(t, block_comments, dedent_brief, dedent_details) ==
    IF block_comments = None THEN [brief |-> <<>>, details |-> <<>>]
    ELSE IF t.kids[block_comments[1]] = <<>> THEN [brief |-> <<>>, details |-> <<>>]
    ELSE LET st == SplitLines([brief |-> <<>>, details |-> <<>>, is_brief |-> TRUE],
                      remove_comment_marks(splitlines(subtext(t, block_comments[1])), FALSE))
         IN [brief |-> IF dedent_brief THEN dedent(st.brief) ELSE st.brief,
             details |-> IF dedent_details THEN dedent(st.details) ELSE st.details]

-----------------------------------------------------------------------------
(* Specification of the comment split: a comment block of some lines *)

MaxBlockLines == 3     \* comment lines of a generated comment block

\* the lines a comment block can have: text, indented text, an empty comment, a marker
\* alone, a header
BlockLines ==
    { <<"-", "-", " ", "a">>, <<"-", "-", " ", " ", "b">>, <<"-", "-">>,
      <<"-", "-", "!", " ", "@", "b", "r", "i", "e", "f">>, <<"-", "-", "-", " ", "h">> }

\* the comment token and the line end of each line become children of parent
AddLines(t, parent, lines) ==
    LET n == Len(t.tag)
        m == 2 * Len(lines)
    IN [t EXCEPT !.tag = @ \o [i \in 1..m |-> IF i % 2 = 1 THEN "parser.comment"
                                                ELSE "parser.carriage_return"],
                 !.attrib = @ \o [i \in 1..m |-> <<>>],
                 !.text = @ \o [i \in 1..m |-> IF i % 2 = 1 THEN lines[(i + 1) \div 2]
                                                 ELSE <<"\n">>],
                 !.kids = [@ EXCEPT ![parent] = @ \o [i \in 1..m |-> n + i]]
                            \o [i \in 1..m |-> <<>>]]

BlockRoot == 1

InitSplit ==
    /\ pc = "idle"
    /\ token_list = <<>>
    /\ \E lines \in SeqsUpTo(BlockLines, MaxBlockLines) :
           tree = AddLines(XElement(EmptyStore, "comment_block", <<>>), BlockRoot, lines)
    /\ raised = NoError
    /\ entities = <<>>
    /\ label_list = [kind |-> "list", items |-> <<>>]
    /\ inserted = <<>>
    /\ result = NoResult
    /\ calls = 0

SplitBlockComments(block_comments) ==
    /\ pc = "idle"
    /\ result' = [call |-> "split_block_comments", arg |-> block_comments,
                  value |-> split_block_comments(tree, block_comments, TRUE, TRUE)]
    /\ pc' = "split"
    /\ UNCHANGED <<token_list, tree, raised, entities, label_list, inserted, calls>>

NextSplit == \E block_comments \in {None, Some(BlockRoot)} : SplitBlockComments(block_comments)

SpecSplit == InitSplit /\ [][NextSplit]_vars

-----------------------------------------------------------------------------
(* Properties of the comment split *)

\* the lines of the block without their comment marks, as the split reads them
CleanedLines == remove_comment_marks(splitlines(subtext(tree, BlockRoot)), FALSE)

\* position of the first empty line at or after position from, 0 when there is none
FirstBlank(lines, from) ==
    IF \E i \in from..Len(lines) : lines[i] = <<>>
    THEN CHOOSE i \in from..Len(lines) :
            lines[i] = <<>> /\ \A j \in from..(i - 1) : lines[j] /= <<>>
    ELSE 0

\* the lines before position f, each trimmed (all of them when f is 0)
TrimmedBefore(lines, f) ==
    [i \in 1..(IF f = 0 THEN Len(lines) ELSE f - 1) |-> strip(lines[i])]

\* the lines after position f (none when f is 0)
LinesAfter(lines, f) == IF f = 0 THEN <<>> ELSE SubSeq(lines, f + 1, Len(lines))

\* split_block_comments has returned for a block with lines
HasSplit == pc = "split" /\ result.arg = Some(BlockRoot) /\ tree.kids[BlockRoot] /= <<>>

\* C19 as stated: brief is the cleaned lines before the first blank line, each trimmed,
\* details is the lines after it, the blank line is in neither; without a blank line every
\* line is in brief and details is empty
C19_SplitAtFirstBlank ==
    HasSplit =>
        /\ result.value.brief = TrimmedBefore(CleanedLines, FirstBlank(CleanedLines, 1))
        /\ result.value.details = LinesAfter(CleanedLines, FirstBlank(CleanedLines, 1))

\* C19 as amended: the split is at the first empty line that is not the first line; brief
\* is the trimmed lines before it and details the lines after it dedented as one block,
\* each list without a final empty line
C19_SplitAtFirstBlankAfterText ==
    HasSplit =>
        /\ result.value.brief =
              Rejoin(TrimmedBefore(CleanedLines, FirstBlank(CleanedLines, 2)))
        /\ result.value.details =
              Rejoin(DedentLines(LinesAfter(CleanedLines, FirstBlank(CleanedLines, 2))))

\* a block of three lines was split at its second line into one line of brief and one
\* indented line of details
C19_Witness ==
    /\ HasSplit
    /\ Len(CleanedLines) = 3
    /\ FirstBlank(CleanedLines, 1) = 2
    /\ result.value.brief = <<<<"a">>>>
    /\ result.value.details = <<<<"b">>>>
    /\ CleanedLines[3] = <<" ", " ", "b">>


-----------------------------------------------------------------------------
(* VHDLFiles.get_comments *)

\* variant of get_file_with_entity: the name is looked up as it is written
get_file_with_entity_KeepCase(ents, name) ==
    IF HasKey(ents, name) THEN Some(DictGet(ents, name).file_node) ELSE None

\* the file node of the entity name, or None after the message is printed
get_file_with_entity(ents, name) ==
    IF HasKey(ents, lower(name)) THEN Some(DictGet(ents, lower(name)).file_node) ELSE None

\* file.iterfind('.//comment_block'): the descendants with the tag, in document order
iterfind(t, e, tag) == SelectSeq(Tail(iter(t, e)), LAMBDA c : t.tag[c] = tag)

\* match(source, target): no target, or an empty one, matches nothing
match(source, target) ==
    IF target = None THEN FALSE
    ELSE IF target[1] = <<>> THEN FALSE
    ELSE Contains(source, target[1])

\* matching_lines.append(s); captured keeps the block and the line number of s
Capture(st, s, bc, i) ==
    [st EXCEPT !.matching_lines = Append(@, s),
               !.captured = Append(@, [block |-> bc, line |-> i])]

\* if capture: matching_lines.append(s), with the value capture has at that test
CaptureIf(st, capture, s, bc, i) ==
    IF capture THEN Capture([st EXCEPT !.capture = TRUE], s, bc, i) ELSE st

\* the body of the loop over the lines of a block; stop is the break of that loop
ScanLine(st, s, bc, i, m) ==
    IF match(s, m.end_before)
    THEN [st EXCEPT !.capture = @ \/ match(s, m.start_before), !.stop = TRUE]
    ELSE [CaptureIf(st, st.capture \/ match(s, m.start_before), s, bc, i)
             EXCEPT !.capture = @ \/ match(s, m.start_before) \/ match(s, m.start_after),
                    !.stop = match(s, m.end_after)]

RECURSIVE ScanLines(_, _, _, _, _)
ScanLines(st, lines, bc, i, m) ==
    IF i > Len(lines) \/ st.stop THEN st
    ELSE ScanLines(ScanLine(st, lines[i], bc, i, m), lines, bc, i + 1, m)

\* the loop over the comment blocks: capture is kept from one block to the next, and the
\* loop ends after the first block that left a line in matching_lines
RECURSIVE ScanBlocks(_, _, _, _)
ScanBlocks(st, t, blocks, m) ==
    IF blocks = <<>> \/ st.matching_lines /= <<>> THEN st
    ELSE ScanBlocks(ScanLines([st EXCEPT !.stop = FALSE],
                              splitlines(subtext(t, Head(blocks))), Head(blocks), 1, m),
                    t, Tail(blocks), m)

\* m holds start_before, start_after, end_before and end_after
get_comments(t, ents, entity, m, dedent_lines) ==
    IF get_file_with_entity(ents, entity) = None
    THEN [raised |-> "ValueError", value |-> <<>>, captured |-> <<>>]
    ELSE [raised |-> NoError,
          value |-> remove_comment_marks(
              ScanBlocks([capture |-> FALSE, matching_lines |-> <<>>, captured |-> <<>>,
                          stop |-> FALSE],
                         t, iterfind(t, get_file_with_entity(ents, entity)[1], "comment_block"),
                         m).matching_lines, dedent_lines),
          captured |->
              ScanBlocks([capture |-> FALSE, matching_lines |-> <<>>, captured |-> <<>>,
                          stop |-> FALSE],
                         t, iterfind(t, get_file_with_entity(ents, entity)[1], "comment_block"),
                         m).captured]

-----------------------------------------------------------------------------
(* Specification of the comment query: a file of some comment blocks and one entity *)

MaxBlocks == 2         \* comment blocks of the generated file
MaxMarkedLines == 2    \* comment lines of each of these blocks

StartWord == <<"S">>
EndWord == <<"E">>

\* the lines of these blocks: one with the start word, one with the end word, one with neither
MarkedLines == { <<"-", "-", " ", "S">>, <<"-", "-", " ", "E">>, <<"-", "-", " ", "a">> }

MarkedBlocks == SeqsUpTo(MarkedLines, MaxMarkedLines) \ {<<>>}

\* a comment_block of the lines, then a blank_line, both children of parent
AddBlock(t, parent, lines) ==
    LET cb == NewId(t)
        t1 == AddLines(append(XElement(t, "comment_block", <<>>), parent, cb), cb, lines)
        bl == NewId(t1)
        t2 == append(XElement(t1, "blank_line", <<>>), parent, bl)
    IN SetText(append(XElement(t2, "parser.carriage_return", <<>>), bl, NewId(t2)),
               NewId(t2), <<"\n">>)

RECURSIVE AddBlocks(_, _, _)
AddBlocks(t, parent, blocks) ==
    IF blocks = <<>> THEN t ELSE AddBlocks(AddBlock(t, parent, Head(blocks)), parent, Tail(blocks))

\* an entity_declaration with its identifier, child of parent
AddEntity(t, parent, name) ==
    LET en == NewId(t)
        t1 == append(XElement(t, "entity_declaration", <<>>), parent, en)
    IN SetText(append(XElement(t1, "entity_declaration.identifier", <<>>), en, NewId(t1)),
               NewId(t1), name)

CommentsFile == 2

\* the project with one parsed file: its comment blocks, then the entity A
FileOfBlocks(blocks) ==
    AddEntity(AddBlocks(append(XElement(XElement(EmptyStore, "project", <<>>), "file",
                                        [filename |-> <<"f">>]),
                               ProjectRoot, CommentsFile),
                        CommentsFile, blocks),
              CommentsFile, <<"A">>)

InitComments ==
    /\ pc = "idle"
    /\ token_list = <<>>
    /\ \E blocks \in SeqsUpTo(MarkedBlocks, MaxBlocks) : tree = FileOfBlocks(blocks)
    /\ raised = NoError
    /\ entities = analyze_entities(tree, CommentsFile).items
    /\ label_list = [kind |-> "list", items |-> <<>>]
    /\ inserted = <<>>
    /\ result = NoResult
    /\ calls = 0

GetComments(entity, m) ==
    /\ pc = "idle"
    /\ result' = [call |-> "get_comments", arg |-> entity, markers |-> m,
                  value |-> get_comments(tree, entities, entity, m, TRUE)]
    /\ raised' = get_comments(tree, entities, entity, m, TRUE).raised
    /\ pc' = "comments"
    /\ UNCHANGED <<token_list, tree, entities, label_list, inserted, calls>>

Markers ==
    [start_before : {None, Some(StartWord)}, start_after : {None, Some(StartWord)},
     end_before : {None, Some(EndWord)}, end_after : {None, Some(EndWord)}]

NextComments ==
    \E entity \in {<<"a">>, <<"A">>, <<"b">>}, m \in Markers : GetComments(entity, m)

SpecComments == InitComments /\ [][NextComments]_vars


-----------------------------------------------------------------------------
(* Properties of the comment query *)

\* the comment lines of the file in document order, each with its block and line number
RECURSIVE LinesOfBlocks(_, _)
LinesOfBlocks(t, blocks) ==
    IF blocks = <<>> THEN <<>>
    ELSE [i \in 1..Len(splitlines(subtext(t, Head(blocks)))) |->
             [block |-> Head(blocks), line |-> i,
              text |-> splitlines(subtext(t, Head(blocks)))[i]]]
         \o LinesOfBlocks(t, Tail(blocks))

DocLines == LinesOfBlocks(tree, iterfind(tree, CommentsFile, "comment_block"))

HasComments == pc = "comments" /\ result.value.raised = NoError

\* the lines of the file that the call captured
CapturedLines ==
    {i \in 1..Len(DocLines) :
        \E k \in 1..Len(result.value.captured) :
            /\ result.value.captured[k].block = DocLines[i].block
            /\ result.value.captured[k].line = DocLines[i].line}

\* line i is at a start_before line or after a start_after line
StartedAt(i) ==
    \/ \E j \in 1..i : match(DocLines[j].text, result.markers.start_before)
    \/ \E j \in 1..(i - 1) : match(DocLines[j].text, result.markers.start_after)

\* line i is at or after an end_before line, or after an end_after line, that matched
\* after capture started
EndedAt(i) ==
    \E j \in 1..i :
        /\ StartedAt(j)
        /\ \/ match(DocLines[j].text, result.markers.end_before)
           \/ j < i /\ match(DocLines[j].text, result.markers.end_after)

InRange(i) == StartedAt(i) /\ ~EndedAt(i)

\* the captured lines are lines of one comment block
SingleBlock == \A i, j \in CapturedLines : DocLines[i].block = DocLines[j].block

\* the lines of the first block with a line in range, that are in range
FirstBlockInRange ==
    {i \in 1..Len(DocLines) :
        InRange(i) /\ \A j \in 1..i : InRange(j) => DocLines[j].block = DocLines[i].block}

\* C20: get_comments returns lines of a single comment block, the first block in document
\* order with a captured line: the captured lines are the lines of that block from the
\* start_before line, or after the start_after line, up to the end_before line excluded,
\* or the end_after line included; no line is captured after an end marker that matched
\* after capture started, in this block or in a following one
C20_DelimitedSingleBlock ==
    HasComments =>
        /\ SingleBlock
        /\ \A i \in CapturedLines : StartedAt(i)
        /\ \A i \in CapturedLines : ~EndedAt(i)
        /\ FirstBlockInRange \subseteq CapturedLines

-----------------------------------------------------------------------------
(* Properties of the file lookup *)

\* C21: for every registered entity and every spelling of its name in any letter case,
\* get_file_with_entity returns a file node that is a child of the project root, that has
\* the registered declaration node as a direct child, and whose filename is the
\* source_file of the descriptor
C21_FileOfEntity ==
    \A i \in 1..Len(entities) : \A M \in QueryNames :
        lower(M) = entities[i].key =>
            /\ get_file_with_entity(entities, M) /= None
            /\ InSeq(get_file_with_entity(entities, M)[1], FileNodes)
            /\ InSeq(entities[i].value.entity_node,
                     tree.kids[get_file_with_entity(entities, M)[1]])
            /\ entities[i].value.source_file = FileNameOf(get_file_with_entity(entities, M)[1])

\* two files were parsed, an entity is registered for the second one (which took the
\* place of an entity of the first), and its name is written with capital letters
C21_Witness ==
    /\ pc = "parse_file"
    /\ raised = NoError
    /\ Len(FileNodes) >= 2
    /\ \E i \in 1..Len(entities) :
          /\ entities[i].value.file_node = FileNodes[2]
          /\ entities[i].value.name /= entities[i].key
          /\ Len(entities) < Len(FileNodes)

-----------------------------------------------------------------------------
(* Properties of the comment pass: grouping *)

\* the nodes whose children the pass scans: the file element and the productions
Scanned(t) == {s \in Reachable(t, 1) : s = 1 \/ IsProd(t, s)}

\* position i of the child list k holds the comment token of a complete comment line
IsCompleteCommentLine(t, k, i) ==
    /\ t.tag[k[i]] = "parser.comment"
    /\ i < Len(k)
    /\ t.tag[k[i + 1]] = "parser.carriage_return"

\* C22: end of children: when group_and_move_comments returns, no complete comment line
\* (a comment token and its line end) is left as an ungrouped direct child of a scanned
\* node; a group still pending at the end of the children is made a comment_block
C22_PendingGroupFinalized ==
    (pc = "grouped" /\ raised = NoError) =>
        \A s \in Scanned(tree) : \A i \in 1..Len(tree.kids[s]) :
            ~IsCompleteCommentLine(tree, tree.kids[s], i)

\* in the child list k, position i is a delimited-comment start and j its end token
IsDelimitedSpan(t, k, i, j) ==
    /\ i < j
    /\ t.tag[k[i]] = "delimited_comment.beginning"
    /\ t.tag[k[j]] = "delimited_comment.ending"
    /\ \A m \in (i + 1)..(j - 1) :
          t.tag[k[m]] \notin {"delimited_comment.beginning", "delimited_comment.ending"}

\* C23: a delimited comment never breaks a group: the tokens from a delimited-comment
\* start token through its end token are, after the pass, children of one and the same
\* comment_block, whatever the number of line ends between them and whatever follows
C23_DelimitedCommentInOneBlock ==
    (pc = "grouped" /\ raised = NoError) =>
        \A s \in Elements(BuiltTree) :
            \A i, j \in 1..Len(BuiltTree.kids[s]) :
                IsDelimitedSpan(BuiltTree, BuiltTree.kids[s], i, j) =>
                    \E c \in CommentBlocks(tree) :
                        \A m \in i..j : InSeq(BuiltTree.kids[s][m], tree.kids[c])

\* the column of the first comment token among the elements es, None when there is none
RECURSIVE FirstCommentCol(_, _)
FirstCommentCol(t, es) ==
    IF es = <<>> THEN None
    ELSE IF IsCommentToken(t, Head(es)) THEN Some(t.attrib[Head(es)].col)
    ELSE IF t.tag[Head(es)] = "parser.whitespace" THEN FirstCommentCol(t, Tail(es))
    ELSE None

\* the column of the comment line that begins at position i of the child list k
LineColAt(t, k, i) == FirstCommentCol(t, SubSeq(k, i, Len(k)))

\* the column of a comment_block: the one of its first comment token
BlockCol(t, c) ==
    FirstCommentCol(t, SelectSeq(t.kids[c], LAMBDA e : t.tag[e] /= "parser.carriage_return"))

\* C24: tie-break on the group's column: a comment line is merged into the current group
\* when its column is not less than the column of the first line of the group, so a
\* comment line that directly follows a comment_block in its scope, and so ended it, has
\* a column less than the column of the block
C24_MergedOnGroupColumn ==
    (pc = "grouped" /\ raised = NoError) =>
        \A s \in Scanned(tree) : \A i \in 1..(Len(tree.kids[s]) - 1) :
            (/\ tree.tag[tree.kids[s][i]] = "comment_block"
             /\ LineColAt(tree, tree.kids[s], i + 1) /= None) =>
                LineColAt(tree, tree.kids[s], i + 1)[1] < BlockCol(tree, tree.kids[s][i])[1]

-----------------------------------------------------------------------------
(* Properties of the comment pass: attachment *)

IsTrivial(t, e) ==
    t.kids[e] = <<>> /\ t.tag[e] \in {"parser.whitespace", "parser.carriage_return"}

\* in the child list k of the built tree, the productions at i and j have between them
\* only whitespace, line ends and comment tokens, and a comment line ends right before j
CommentBetweenProds(t, k, i, j) ==
    /\ i + 2 < j
    /\ IsProd(t, k[i])
    /\ IsProd(t, k[j])
    /\ \A m \in (i + 1)..(j - 1) : IsTrivial(t, k[m]) \/ t.tag[k[m]] = "parser.comment"
    /\ t.tag[k[j - 2]] = "parser.comment"
    /\ t.tag[k[j - 1]] = "parser.carriage_return"

\* the first child of the production p is a comment_block that holds the leaf e
IsHeaderOf(t, p, e) ==
    /\ t.kids[p] /= <<>>
    /\ t.tag[t.kids[p][1]] = "comment_block"
    /\ InSeq(e, t.kids[t.kids[p][1]])

\* C25: header attachment takes effect before tail attachment: a comment block that
\* follows a production P1 with no non-trivial token between them and that immediately
\* precedes a production P2 is, after the pass, the first child of P2 and no child of P1
C25_HeaderBeforeTail ==
    pc = "grouped" =>
        \A s \in Elements(BuiltTree) : \A i, j \in 1..Len(BuiltTree.kids[s]) :
            CommentBetweenProds(BuiltTree, BuiltTree.kids[s], i, j) =>
                /\ IsHeaderOf(tree, BuiltTree.kids[s][j], BuiltTree.kids[s][j - 2])
                /\ \A c \in CommentBlocks(tree) : ~InSeq(c, tree.kids[BuiltTree.kids[s][i]])

-----------------------------------------------------------------------------
(* Specification of the steps of the comment pass: one child at a time, with the stack
   of the calls of group_and_move_comments in result.stack (the last frame is the
   running call) and the nodes whose call has returned in result.done *)

\* the lines of the files of this specification
PassShapes ==
    { <<CM, CR>>, <<CR>>, <<KW(FALSE, FALSE), CR>>, <<KW(TRUE, FALSE), CR>>,
      <<KW(FALSE, TRUE), CR>>, <<KW(TRUE, TRUE), CR>> }

PassTokenLists == {tl \in TokenLists(MaxLines) :
                      \A i \in 1..Len(tl) : \E l \in PassShapes : \E m \in 1..Len(l) : tl[i] = l[m]}

InitPass ==
    /\ pc = "lexed"
    /\ token_list \in PassTokenLists
    /\ tree = EmptyStore
    /\ raised = NoError
    /\ entities = <<>>
    /\ label_list = <<>>
    /\ inserted = <<>>
    /\ result = NoResult
    /\ calls = 0

\* the locals of a call, without the tree they work on
Locals(p) == [p EXCEPT !.t = EmptyStore]

\* the frame of the call group_and_move_comments(etc): the loop over list(etc) begins
Frame(t, etc) ==
    [etc |-> etc, phase |-> "scan", rem |-> t.kids[etc], seen |-> <<>>,
     p |-> Locals(PassInit(t))]

Top == Last(result.stack)
Depth == Len(result.stack)

\* group_and_move_comments(et) is called
CallPass ==
    /\ pc = "built"
    /\ result' = [stack |-> <<Frame(tree, 1)>>, done |-> {}]
    /\ pc' = "scanning"
    /\ UNCHANGED <<token_list, tree, raised, entities, label_list, inserted, calls>>

\* one iteration of the loop over the children; an exception ends every call
ScanOne ==
    /\ pc = "scanning"
    /\ Top.phase = "scan"
    /\ Top.rem /= <<>>
    /\ \E p1 \in {ScanChild([Top.p EXCEPT !.t = tree], Top.etc, Head(Top.rem))} :
          /\ tree' = [p1.t EXCEPT !.raised = NoError]
          /\ raised' = p1.t.raised
          /\ pc' = IF p1.t.raised = NoError THEN "scanning" ELSE "grouped"
          /\ result' = [result EXCEPT !.stack[Depth] =
                            [@ EXCEPT !.rem = Tail(@), !.seen = Append(@, Head(Top.rem)),
                                      !.p = Locals(p1)]]
    /\ UNCHANGED <<token_list, entities, label_list, inserted, calls>>

\* the loop over the children is over: the loop over list(etc) of the recursion begins
EndScan ==
    /\ pc = "scanning"
    /\ Top.phase = "scan"
    /\ Top.rem = <<>>
    /\ result' = [result EXCEPT !.stack[Depth] =
                      [@ EXCEPT !.phase = "recurse", !.rem = tree.kids[Top.etc]]]
    /\ UNCHANGED <<pc, token_list, tree, raised, entities, label_list, inserted, calls>>

\* one iteration of the second loop: a child with children that is no group is passed to
\* a new call
RecurseOne ==
    /\ pc = "scanning"
    /\ Top.phase = "recurse"
    /\ Top.rem /= <<>>
    /\ result' = [result EXCEPT !.stack =
                      IF Len(tree.kids[Head(Top.rem)]) > 0 /\ ~IsGroupTag(tree.tag[Head(Top.rem)])
                      THEN Append([@ EXCEPT ![Depth].rem = Tail(@)], Frame(tree, Head(Top.rem)))
                      ELSE [@ EXCEPT ![Depth].rem = Tail(@)]]
    /\ UNCHANGED <<pc, token_list, tree, raised, entities, label_list, inserted, calls>>

\* the running call returns
Return ==
    /\ pc = "scanning"
    /\ Top.phase = "recurse"
    /\ Top.rem = <<>>
    /\ result' = [result EXCEPT !.stack = Front(@), !.done = @ \cup {Top.etc}]
    /\ pc' = IF Depth = 1 THEN "grouped" ELSE "scanning"
    /\ UNCHANGED <<token_list, tree, raised, entities, label_list, inserted, calls>>

NextPass == Build \/ CallPass \/ ScanOne \/ EndScan \/ RecurseOne \/ Return

SpecPass == InitPass /\ [][NextPass]_vars

\* the steps end with the tree and the exception of group_and_move_comments
PassStepsAgree ==
    pc = "grouped" =>
        /\ tree = [group_and_move_comments(BuiltTree, 1, TRUE) EXCEPT !.raised = NoError]
        /\ raised = group_and_move_comments(BuiltTree, 1, TRUE).raised

\* C26: inner scopes first: when the scan of a scope has handled a production child P
\* (where it may relocate a comment group into P) and has continued past P to a later
\* child, the call that groups and attaches the children of P has returned
C26_InnerScopesFirst ==
    pc = "scanning" =>
        \A f \in 1..Depth : \A i \in 1..(Len(result.stack[f].seen) - 1) :
            IsProd(tree, result.stack[f].seen[i]) => result.stack[f].seen[i] \in result.done

-----------------------------------------------------------------------------
(* Properties of the comment pass: headers and trailers *)

\* in the child list k of the built tree, the comment line that ends at i + 1 is the last
\* one before the production at j: only whitespace and line ends lie between them
LastCommentBefore(t, k, i, j) ==
    /\ i + 1 < j
    /\ IsProd(t, k[j])
    /\ t.tag[k[i]] = "parser.comment"
    /\ t.tag[k[i + 1]] = "parser.carriage_return"
    /\ \A m \in (i + 2)..(j - 1) : IsTrivial(t, k[m])

\* an empty line lies between the positions m and i of the child list k
BlankLineBetween(t, k, m, i) ==
    \E x \in (m + 2)..(i - 1) :
        t.tag[k[x]] = "parser.carriage_return" /\ t.tag[k[x - 1]] = "parser.carriage_return"

\* C27: the last comment block before a production, separated from it only by blank
\* lines, whitespace and line ends, is relocated with these nodes into the production as
\* its first children, and a comment block before it stays in the enclosing scope
C27_LastBlockIsHeader ==
    pc = "grouped" =>
        \A s \in Elements(BuiltTree) : \A i, j \in 1..Len(BuiltTree.kids[s]) :
            LastCommentBefore(BuiltTree, BuiltTree.kids[s], i, j) =>
                /\ IsHeaderOf(tree, BuiltTree.kids[s][j], BuiltTree.kids[s][i])
                /\ \A m \in i..(j - 1) :
                      BuiltTree.kids[s][m] \in Reachable(tree, BuiltTree.kids[s][j])
                /\ \A m \in 1..(i - 1) :
                      (/\ BuiltTree.tag[BuiltTree.kids[s][m]] = "parser.comment"
                       /\ BlankLineBetween(BuiltTree, BuiltTree.kids[s], m, i)) =>
                          BuiltTree.kids[s][m] \notin Reachable(tree, BuiltTree.kids[s][j])

\* the elements es hold at most one statement terminator
AtMostOneTerminator(t, es) == Len(SelectSeq(es, LAMBDA e : t.text[e] = <<";">>)) <= 1

\* in the child list k of the built tree, the comment at c follows the production at j
\* with only whitespace, line ends and one ';' between them; its line is complete and
\* is followed by an empty line, and no production comes after it
FollowsProd(t, k, j, c) ==
    /\ j < c
    /\ c + 2 <= Len(k)
    /\ IsProd(t, k[j])
    /\ t.tag[k[c]] = "parser.comment"
    /\ \A m \in (j + 1)..(c - 1) : IsTrivial(t, k[m]) \/ IsTrailer(t, k[m])
    /\ AtMostOneTerminator(t, SubSeq(k, j + 1, c - 1))
    /\ t.tag[k[c + 1]] = "parser.carriage_return"
    /\ t.tag[k[c + 2]] = "parser.carriage_return"
    /\ \A m \in (c + 1)..Len(k) : ~IsProd(t, k[m])

\* C28: blank lines, whitespace, line ends and one statement terminator between a
\* production P and a following comment block do not cancel tail attachment: the block
\* becomes a child of P and the nodes between them are relocated into P with it
C28_TrailersKeepTracking ==
    pc = "grouped" =>
        \A s \in Elements(BuiltTree) : \A j, c \in 1..Len(BuiltTree.kids[s]) :
            FollowsProd(BuiltTree, BuiltTree.kids[s], j, c) =>
                /\ \E b \in CommentBlocks(tree) :
                      /\ InSeq(b, tree.kids[BuiltTree.kids[s][j]])
                      /\ InSeq(BuiltTree.kids[s][c], tree.kids[b])
                /\ \A m \in (j + 1)..(c - 1) :
                      BuiltTree.kids[s][m] \in Reachable(tree, BuiltTree.kids[s][j])

-----------------------------------------------------------------------------
(* Properties of the comment pass: the group nodes *)

GroupNodes(t) == {g \in Reachable(t, 1) : IsGroupTag(t.tag[g])}

\* the elements es are, in this order, consecutive children of one node of the tree t
IsSiblingRun(t, es) ==
    \E s \in Elements(t) : \E i \in 1..Len(t.kids[s]) :
        /\ i + Len(es) - 1 <= Len(t.kids[s])
        /\ SubSeq(t.kids[s], i, i + Len(es) - 1) = es

IsLeafOfBuilt(e) == e \in Elements(BuiltTree) /\ BuiltTree.kids[e] = <<>> /\ tree.kids[e] = <<>>

CommentBlockTags ==
    {"parser.comment", "parser.whitespace", "parser.carriage_return",
     "delimited_comment.beginning", "delimited_comment.ending"}

-----------------------------------------------------------------------------
(* Specification of the three operations that regroup a tree: the comment pass on the
   tree of a file, and move and group on a tree of a few nodes *)

InitFrame == Init \/ InitXElement

NextFrame ==
    \/ Build
    \/ GroupAndMove
    \/ /\ pc = "idle"
       /\ \E self \in Parents(tree) : \E element \in MoveArgs(tree, self) :
            \E target_element \in Elements(tree) \ Below(tree, Moved(element)) :
               \E index \in IndexArgs : Move(self, element, target_element, index)
    \/ /\ pc = "idle"
       /\ \E self \in Parents(tree) : \E element_list \in ChildLists(tree, self, MaxKids) :
            Group(self, element_list, "grp")

SpecFrame == InitFrame /\ [][NextFrame]_vars

\* the step is a call of group_and_move_comments, of move or of group
IsRegroupCall == pc \in {"built", "idle"} /\ pc' \in {"grouped", "move", "group"}

\* C30: group, move and group_and_move_comments keep the tag, the text and the
\* attributes (col, line) of every node that existed before the call; they copy no node:
\* every node they create is a group node without text (a comment_block or a blank_line,
\* or for group the tag it was called with), and every node has at most one parent
C30_OnlyMembershipChanges ==
    [][IsRegroupCall =>
        /\ \A e \in Elements(tree) :
              /\ e \in Elements(tree')
              /\ tree'.tag[e] = tree.tag[e]
              /\ tree'.text[e] = tree.text[e]
              /\ tree'.attrib[e] = tree.attrib[e]
        /\ \A e \in Elements(tree') \ Elements(tree) :
              /\ tree'.tag[e] \in {"comment_block", "blank_line", "grp"}
              /\ tree'.text[e] = NoText
        /\ \A e \in Elements(tree') : Cardinality(ParentsOf(tree', e)) <= 1]_vars

\* a move of two children to the end of another node has returned
C30_Witness ==
    /\ pc = "move"
    /\ raised = NoError
    /\ IsList(result.element)
    /\ Len(result.element.list) = 2
    /\ result.target_element /= result.self
    /\ result.index = None
    /\ \A i \in 1..2 : InSeq(result.element.list[i], tree.kids[result.target_element])

-----------------------------------------------------------------------------
(* Positions recorded by the builder *)

\* number of line-end tokens among the first n tokens
RECURSIVE LineEndsIn(_, _)
LineEndsIn(toks, n) ==
    IF n = 0 THEN 0
    ELSE LineEndsIn(toks, n - 1) +
         (IF toks[n].tag = "parser.carriage_return" THEN 1 ELSE 0)

\* summed text length of the tokens before position i back to the last line-end token
RECURSIVE WidthBefore(_, _)
WidthBefore(toks, i) ==
    IF i = 1 \/ toks[i - 1].tag = "parser.carriage_return" THEN 0
    ELSE Len(toks[i - 1].value) + WidthBefore(toks, i - 1)

\* C31: in the built tree the line of the leaf of token i is the number of line-end
\* tokens before i, its col is the summed text length of the tokens before i since the
\* last line end, and every production node carries the line and col of its first leaf.
C31_LeafPositions ==
    pc = "built" =>
        LET leaves == Leaves(tree, 1)
        IN /\ Len(leaves) = Len(token_list)
           /\ \A i \in 1..Len(leaves) :
                /\ tree.attrib[leaves[i]].line = LineEndsIn(token_list, i - 1)
                /\ tree.attrib[leaves[i]].col = WidthBefore(token_list, i)
           /\ \A e \in Reachable(tree, 1) :
                (e /= 1 /\ tree.kids[e] /= <<>>) =>
                    LET first == Leaves(tree, e)[1]
                    IN /\ tree.attrib[e].line = tree.attrib[first].line
                       /\ tree.attrib[e].col = tree.attrib[first].col

\* a production opened after whitespace on a later line, and a leaf behind a
\* two-character token on a later line
C31_Witness ==
    /\ pc = "built"
    /\ \E e \in Reachable(tree, 1) :
            /\ e /= 1 /\ tree.kids[e] /= <<>>
            /\ tree.attrib[e].line >= 1 /\ tree.attrib[e].col >= 1
    /\ \E i \in 1..Len(token_list) :
            /\ LineEndsIn(token_list, i - 1) >= 1
            /\ WidthBefore(token_list, i) >= 3

-----------------------------------------------------------------------------
(* Specification of the builder alone, on tokens that enter and leave up to two
   productions *)

MaxTokens == 4

MarkLists == { <<>>, <<"entity_declaration">>, <<"entity_declaration", "port_clause">> }

\* a code token with an enter list and a leave list
Nest(enter, leave) == Token("entity_declaration.entity_keyword", <<"e">>, enter, leave)

NestTokens == {CR} \cup {Nest(en, le) : en \in MarkLists, le \in MarkLists}

NestTokenLists(n) == UNION {[1..k -> NestTokens] : k \in 0..n}

InitBuild ==
    /\ pc = "lexed"
    /\ token_list \in NestTokenLists(MaxTokens)
    /\ tree = EmptyStore
    /\ raised = NoError
    /\ entities = <<>>
    /\ label_list = <<>>
    /\ inserted = <<>>
    /\ result = NoResult
    /\ calls = 0

NextBuild == Build

SpecBuild == InitBuild /\ [][NextBuild]_vars

\* the enter markers of a stream, numbered in stream order: the numbers of the markers
\* open after the first n tokens (OpenAfter) and after the enter list of token n
\* (OpenAt), with the number of markers seen so far
RECURSIVE OpenAfter(_, _)
RECURSIVE OpenAt(_, _)
OpenAfter(toks, n) ==
    IF n = 0 THEN [open |-> <<>>, seen |-> 0]
    ELSE LET e == OpenAt(toks, n)
         IN [open |-> SubSeq(e.open, 1, Len(e.open) - Len(toks[n].leave_prod)),
             seen |-> e.seen]

OpenAt(toks, n) ==
    LET b == OpenAfter(toks, n - 1)
        k == Len(toks[n].enter_prod)
    IN [open |-> b.open \o [j \in 1..k |-> b.seen + j], seen |-> b.seen + k]

\* no leave list closes more than is open, and nothing is open at the end
Balanced(toks) ==
    /\ \A n \in 1..Len(toks) : Len(OpenAt(toks, n).open) >= Len(toks[n].leave_prod)
    /\ OpenAfter(toks, Len(toks)).open = <<>>

MarkerNames(toks) == Concat([i \in 1..Len(toks) |-> toks[i].enter_prod])

ProdNodes(t) ==
    SelectSeq(iter(t, 1), LAMBDA e : t.tag[e] \in {"entity_declaration", "port_clause"})

\* C32: for a balanced stream the built tree has the root 'file' and one production per
\* enter marker, in marker order and nested as the markers are; the leaf of a token is a
\* child of the innermost production open after the token's enter list, and a
\* production closed by a token's leave list ends with that token's leaf.
C32_ProductionsNestAsMarked ==
    (pc = "built" /\ Balanced(token_list)) =>
        LET leaves == Leaves(tree, 1)
            prods == ProdNodes(tree)
            names == MarkerNames(token_list)
            NodeOf(stack) == IF stack = <<>> THEN 1 ELSE prods[Last(stack)]
        IN /\ tree.tag[1] = "file"
           /\ ParentsOf(tree, 1) = {}
           /\ Len(leaves) = Len(token_list)
           /\ Len(prods) = Len(names)
           /\ \A k \in 1..Len(prods) : tree.tag[prods[k]] = names[k]
           /\ \A k, m \in 1..Len(prods) : k < m => prods[k] /= prods[m]
           /\ \A i \in 1..Len(token_list) :
                LET st == OpenAt(token_list, i).open
                    closed == Len(token_list[i].leave_prod)
                IN /\ ParentsOf(tree, leaves[i]) = {NodeOf(st)}
                   /\ \A q \in 1..Len(st) :
                        ParentsOf(tree, prods[st[q]]) = {NodeOf(SubSeq(st, 1, q - 1))}
                   /\ \A q \in (Len(st) - closed + 1)..Len(st) :
                        Last(Leaves(tree, prods[st[q]])) = leaves[i]

\* a balanced stream with a token that enters two productions inside an open one, a
\* token that leaves two at once, and a token after everything is closed
C32_Witness ==
    /\ pc = "built"
    /\ Balanced(token_list)
    /\ \E i \in 1..Len(token_list) :
            /\ Len(OpenAt(token_list, i).open) = 3
            /\ Len(token_list[i].enter_prod) = 2
    /\ \E i \in 1..Len(token_list) :
            /\ Len(token_list[i].leave_prod) = 2
            /\ i < Len(token_list)
            /\ OpenAfter(token_list, i).open = <<>>

-----------------------------------------------------------------------------
(* The definition text of a declaration *)

\* position of the first child of elem with the given tag after position from, or one
\* past the last child
RECURSIVE ChildAfter(_, _, _, _)
ChildAfter(t, elem, tag, from) ==
    IF from >= Len(t.kids[elem]) THEN Len(t.kids[elem]) + 1
    ELSE IF t.tag[t.kids[elem][from + 1]] = tag THEN from + 1
    ELSE ChildAfter(t, elem, tag, from + 1)

\* the text of the children of elem after the colon and before the comment_block that
\* follows the colon
DefinitionText(t, elem) ==
    LET colon == ChildAfter(t, elem, "interface_unknown_declaration.colon", 0)
        trailer == ChildAfter(t, elem, "comment_block", colon)
    IN Concat(SubtextOfEach(t, SubSeq(t.kids[elem], colon + 1, trailer - 1)))

\* C33: the definition extracted for a declaration is the leaf text after the name-list
\* colon and before the trailing comment, also for a declaration that has a header
\* comment_block as first child and a trailing comment_block.
C33_DefinitionExcludesComments ==
    (pc = "analyzed" /\ result.arg = Some(ClauseRoot)) =>
        \A i \in 1..Len(InterfaceChildren) :
            tree.tag[InterfaceChildren[i]] = "interface_unknown_declaration" =>
                result.value[i].definition = Some(DefinitionText(tree, InterfaceChildren[i]))

\* the same for the declarations whose first child is not a comment_block (holds)
C33_DefinitionOfUnheaded ==
    (pc = "analyzed" /\ result.arg = Some(ClauseRoot)) =>
        \A i \in 1..Len(InterfaceChildren) :
            (/\ tree.tag[InterfaceChildren[i]] = "interface_unknown_declaration"
             /\ tree.tag[tree.kids[InterfaceChildren[i]][1]] /= "comment_block") =>
                result.value[i].definition = Some(DefinitionText(tree, InterfaceChildren[i]))

-----------------------------------------------------------------------------
(* Specification of the head and tail comments of an entity node *)

\* ( --s / p : in --u     (a port clause with a separator and a commented declaration)
PortClause ==
    [tag |-> <<"port_clause", "port_clause.open_parenthesis",
               "comment_block", "parser.comment", "parser.carriage_return",
               "interface_unknown_declaration", "interface_unknown_declaration.identifier",
               "interface_unknown_declaration.colon", "mode.in_keyword",
               "comment_block", "parser.comment", "parser.carriage_return">>,
     text |-> <<NoText, <<"(">>, NoText, <<"-", "-", "s">>, <<"\n">>,
                NoText, <<"p">>, <<":">>, <<"i", "n">>, NoText, <<"-", "-", "u">>, <<"\n">>>>,
     kids |-> <<<<2, 3, 6>>, <<>>, <<4, 5>>, <<>>, <<>>, <<7, 8, 9, 10>>, <<>>, <<>>, <<>>,
                <<11, 12>>, <<>>, <<>>>>]

\* the children an entity_declaration can have
EntityChildren ==
    { CommentBlock(<<"x">>), CommentBlock(<<"y">>), PortClause,
      Leaf("entity_declaration.identifier", <<"A">>),
      Leaf("parser.carriage_return", <<"\n">>) }

EntityRoot == 1

InitEntity ==
    /\ pc = "idle"
    /\ token_list = <<>>
    /\ \E ds \in SeqsUpTo(EntityChildren, MaxKids) :
           tree = AddChildren(XElement(EmptyStore, "entity_declaration", <<>>), EntityRoot, ds)
    /\ raised = NoError
    /\ entities = <<>>
    /\ label_list = <<>>
    /\ inserted = <<>>
    /\ result = NoResult
    /\ calls = 0

\* head_comments, tail_comments = self.get_head_and_tail_comments(entity_node)
HeadAndTail ==
    /\ pc = "idle"
    /\ result' = [call |-> "get_head_and_tail_comments", arg |-> EntityRoot,
                  value |-> get_head_and_tail_comments(tree, EntityRoot)]
    /\ pc' = "commented"
    /\ UNCHANGED <<token_list, tree, raised, entities, label_list, inserted, calls>>

NextEntity == HeadAndTail

SpecEntity == InitEntity /\ [][NextEntity]_vars

\* e is the first (the last) element of the sequence es that is a comment_block
IsFirstBlock(t, es, e) ==
    \E i \in 1..Len(es) :
        /\ es[i] = e /\ t.tag[e] = "comment_block"
        /\ \A j \in 1..(i - 1) : t.tag[es[j]] /= "comment_block"

IsLastBlock(t, es, e) ==
    \E i \in 1..Len(es) :
        /\ es[i] = e /\ t.tag[e] = "comment_block"
        /\ \A j \in (i + 1)..Len(es) : t.tag[es[j]] /= "comment_block"

\* head is the first block of es, or None without a block; tail is the last block of es
\* when es has several, None otherwise
HeadAndTailOf(t, es, r) ==
    LET n == Cardinality({i \in 1..Len(es) : t.tag[es[i]] = "comment_block"})
    IN /\ IF n = 0 THEN r.head = None
          ELSE r.head /= None /\ IsFirstBlock(t, es, r.head[1])
       /\ IF n <= 1 THEN r.tail = None
          ELSE r.tail /= None /\ IsLastBlock(t, es, r.tail[1])
       /\ r.head /= None => r.head /= r.tail

\* the descendants of e in document order
Descendants(t, e) == Tail(iter(t, e))

\* C34 as stated: head and tail are the first and the last comment_block DESCENDANT of
\* the entity in document order
C34_HeadAndTailDescendants ==
    pc = "commented" => HeadAndTailOf(tree, Descendants(tree, EntityRoot), result.value)

\* C34, amended: the head comment is the first comment_block CHILD of the entity, the
\* tail comment is the last comment_block child when the entity has more than one and
\* absent otherwise; head and tail are never the same node.
C34_HeadAndTailChildren ==
    pc = "commented" => HeadAndTailOf(tree, tree.kids[EntityRoot], result.value)

\* an entity with exactly one comment_block child, and blocks nested in its port clause
C34_Witness ==
    /\ pc = "commented"
    /\ result.value.head /= None
    /\ result.value.tail = None
    /\ \E c \in Reachable(tree, EntityRoot) :
            /\ tree.tag[c] = "comment_block"
            /\ ~InSeq(c, tree.kids[EntityRoot])

-----------------------------------------------------------------------------
(* The column read from a comment_block *)

\* C35: reading the column of a comment_block (block.col, answered by __getattr__) yields
\* the column of the first non-whitespace comment token of the block, also when the
\* first child of the block is a whitespace token.
C35_BlockColumnIsCommentColumn ==
    pc = "grouped" =>
        \A b \in CommentBlocks(tree) :
            FirstCommentCol(tree, tree.kids[b]) /= None =>
                /\ HasAttr(tree, b, "col")
                /\ Some(GetAttr(tree, b, "col")) = FirstCommentCol(tree, tree.kids[b])

\* the same for the blocks whose first child is the comment token (holds)
C35_ColumnOfUnindentedBlock ==
    pc = "grouped" =>
        \A b \in CommentBlocks(tree) :
            (tree.kids[b] /= <<>> /\ IsCommentToken(tree, tree.kids[b][1])) =>
                /\ HasAttr(tree, b, "col")
                /\ GetAttr(tree, b, "col") = tree.attrib[tree.kids[b][1]].col

-----------------------------------------------------------------------------
(* Exceptions of parse_file and the shared registries *)

\* C36: parse_file is all-or-nothing: a call that raises (in the builder, in the comment
\* pass or in the entity analysis) leaves the file nodes of the project root and the
\* entity registry as they were before the call.
C36_ParseFileAllOrNothing ==
    [][(calls' = calls + 1 /\ raised' /= NoError) =>
            /\ tree'.kids[ProjectRoot] = tree.kids[ProjectRoot]
            /\ entities' = entities]_vars

\* the same for the calls that raise before the entity analysis (holds)
C36_UnchangedBeforeAnalysis ==
    [][(calls' = calls + 1 /\ raised' \notin {NoError, "AttributeError"}) =>
            /\ tree' = tree
            /\ entities' = entities]_vars

\* a call that raises never changes the entity registry (holds)
C36_EntitiesUnchanged ==
    [][(calls' = calls + 1 /\ raised' /= NoError) => entities' = entities]_vars

-----------------------------------------------------------------------------
(* add_label with a list of labels *)

\* the j-th label of the call r cannot be stored in the registry reg: its key is
\* registered, or an earlier label of the list is the same
Offending(reg, r, j) ==
    \/ Registered(reg, <<r.typ, r.label[j]>>)
    \/ \E m \in 1..(j - 1) : r.label[m] = r.label[j]

\* the step is a call of add_label on a dict that raises the duplicate error
IsDuplicateRaise == IsAddLabelCall /\ label_list.kind = "dict" /\ raised' = "ValueError"

\* C37 as stated: when a label of the list is registered and the call raises, no label
\* of the list has been inserted by the call
C37_ListAllOrNothing ==
    [][(IsDuplicateRaise /\ \E k \in CallKeys(result') : Registered(label_list, k)) =>
            \A k \in CallKeys(result') : inserted'[k] = inserted[k]]_vars

\* C37, amended: add_label on a list raises exactly when a label of the list is
\* registered or repeated in the list; the labels that precede the first such label have
\* been inserted with the owner of the call, and no other key has been inserted or
\* changed
C37_PrefixInserted ==
    [][(IsAddLabelCall /\ label_list.kind = "dict") =>
        LET r == result'
            bad == {j \in 1..Len(r.label) : Offending(label_list, r, j)}
        IN /\ (bad /= {}) = (raised' = "ValueError")
           /\ bad /= {} =>
                LET i == CHOOSE j \in bad : \A m \in bad : j <= m
                    before == {<<r.typ, r.label[j]>> : j \in 1..(i - 1)}
                IN \A k \in LabelKeys :
                    IF k \in before
                    THEN /\ Registered(label_list', k)
                         /\ DictGet(label_list'.items, k) = r.obj
                         /\ inserted'[k] = inserted[k] + 1
                    ELSE /\ Registered(label_list', k) = Registered(label_list, k)
                         /\ Registered(label_list, k) =>
                                DictGet(label_list'.items, k) = DictGet(label_list.items, k)
                         /\ inserted'[k] = inserted[k]]_vars

\* the second call named two labels: the first was new and is now owned by the caller,
\* the second was held by another owner, and the call raised
C37_Witness ==
    /\ pc = "add_label"
    /\ calls = 2
    /\ raised = "ValueError"
    /\ label_list.kind = "dict"
    /\ Len(result.label) = 2
    /\ result.label[1] /= result.label[2]
    /\ Registered(label_list, <<result.typ, result.label[1]>>)
    /\ Registered(label_list, <<result.typ, result.label[2]>>)
    /\ DictGet(label_list.items, <<result.typ, result.label[1]>>) = result.obj
    /\ DictGet(label_list.items, <<result.typ, result.label[2]>>) /= result.obj
    /\ inserted[<<result.typ, result.label[1]>>] = 1

-----------------------------------------------------------------------------
(* Termination and coverage of the comment pass *)

\* the loops of a call run over a copy of a finite child list and every call returns or
\* is ended by an exception: no step of the pass is postponed for ever
InitScan ==
    /\ pc = "built"
    /\ token_list \in {tl \in PassTokenLists :
                          token_list_to_element_tree(EmptyStore, FileName, tl).raised = NoError}
    /\ tree = token_list_to_element_tree(EmptyStore, FileName, token_list)
    /\ raised = NoError
    /\ entities = <<>>
    /\ label_list = <<>>
    /\ inserted = <<>>
    /\ result = NoResult
    /\ calls = 0

NextScan == CallPass \/ ScanOne \/ EndScan \/ RecurseOne \/ Return

SpecScan == InitScan /\ [][NextScan]_vars /\ WF_vars(NextScan)

\* the nodes whose children the pass has to scan: the file element and every node below
\* it that has children and is no comment_block or blank_line
ScanTargets(t) ==
    {1} \cup {e \in Reachable(t, 1) : Len(t.kids[e]) > 0 /\ ~IsGroupTag(t.tag[e])}

\* the nodes of the calls that are running
Running == {result.stack[i].etc : i \in 1..Depth}

\* the step begins a call of group_and_move_comments
IsNewCall == pc' = "scanning" /\ Len(result'.stack) = (IF pc = "built" THEN 1 ELSE Depth + 1)

C38_Terminates == <>(pc = "grouped")

\* no call is made for a node whose children were or are being scanned
C38_NoSecondScan ==
    [][(pc = "scanning" /\ IsNewCall) =>
            Last(result'.stack).etc \notin (result.done \cup Running)]_vars

\* no call is made for a comment_block or a blank_line
C38_GroupsNotScanned ==
    pc = "scanning" => \A e \in result.done \cup Running : ~IsGroupTag(tree.tag[e])

\* a pass that returns has scanned the children of every target
C38_ReturnedPassScannedAll ==
    (pc = "grouped" /\ raised = NoError) => result.done = ScanTargets(tree)

\* C38: the pass terminates, and with recurse enabled it scans the children of every
\* production node at every depth exactly once and never those of a comment_block or
\* blank_line.
C38_TerminatesScanningAll ==
    /\ C38_Terminates
    /\ [](pc = "grouped" => result.done = ScanTargets(tree))
    /\ [](pc = "scanning" => \A e \in result.done \cup Running : ~IsGroupTag(tree.tag[e]))
    /\ [][(pc = "scanning" /\ IsNewCall) =>
            Last(result'.stack).etc \notin (result.done \cup Running)]_vars

====
